---- MODULE Spec2Model ----
(***************************************************************************)
(* Model of the record clean-up pipeline:                                  *)
(*   - DataProcessor.clean_id              (src/src/data_cleanup.py)       *)
(*   - EnterpriseErrorHandler              (src/src/error_handler.py)      *)
(*   - EnterprisePerformanceMonitor        (src/src/performance_monitor.py)*)
(*   - EnterpriseDataProcessor             (src/src/enterprise_processor.py)*)
(*   - DataProcessor.process_row, clean_date, clean_currency               *)
(*   - EnterpriseDataSecurity.mask_data    (src/src/data_security.py)      *)
(* Each component has its own specification (IdSpec, HandlerSpec,          *)
(* BatchSpec, ProcessorSpec, NormalizeSpec, MaskSpec) over the shared      *)
(* variable tuple; a component's actions leave the other components'      *)
(* variables unchanged.                                                    *)
(***************************************************************************)
EXTENDS Integers, Sequences, FiniteSets, TLC

VARIABLES
    \* ---- DataProcessor (data_cleanup.py) ----
    seen_ids,        \* self.seen_ids: set of identifiers handed out so far
    issues,          \* self.issues: sequence of <<row, field, value, issue>>
    stats_issues,    \* self.stats['issues']
    rows,            \* history: the raw values passed to clean_id, in call order
    ids,             \* history: what each clean_id call returned
    \* ---- EnterpriseErrorHandler (error_handler.py) ----
    max_retries,             \* self.max_retries
    error_records,           \* self.error_records: sequence of ErrorRecord
    circuit_breaker_state,   \* self.circuit_breaker_state
    consecutive_failures,    \* self.consecutive_failures
    rpc,                     \* where the current retry_with_backoff call stands
    attempt,                 \* retry_with_backoff: the loop variable
    last_exception,          \* retry_with_backoff: last_exception
    delay,                   \* retry_with_backoff: delay being slept, in tenths of a second
    outcome,                 \* what the last retry_with_backoff call returned or raised
    op_calls,                \* history: operation invocations of the current call
    op_fails,                \* history: failed invocations of the current call
    sleeps,                  \* history: time.sleep calls of the current call
    lastSuccessAt,           \* history: len(error_records) at the last successful operation
    \* ---- EnterprisePerformanceMonitor.process_in_batches (performance_monitor.py) ----
    total_records,           \* len(data)
    batch_size,              \* batch_size argument
    max_workers,             \* max_workers argument
    error_threshold,         \* error_threshold argument, in percent
    mpc,                     \* where the calling thread stands: submit, collect, shutdown, done
    batch_idx,               \* the submit loop's variable (0-based), kept after the loop
    cpos,                    \* 1-based position of the collect loop in futures
    total_success,           \* total_success
    total_errors,            \* total_errors
    fstate,                  \* futures: absent, pending, running, returned, raised, cancelled
    fresult,                 \* futures: the batch result dict (success_count, error_count)
    result,                  \* the dict process_in_batches returns
    worker,                  \* pool threads: position in _process_single_batch and its locals
    current_batch,           \* self.current_batch: 0 for None, else the BatchStatus object
    status_obj,              \* the BatchStatus objects, named by the batch whose start made them
    batch_history,           \* self.batch_history: sequence of object references
    total_records_processed, \* self.resource_stats['total_records_processed']
    collected,               \* history: per collected future, "result" or "exception"
    breached,                \* history: the error threshold check fired
    applied_increments,      \* history: sum of the increments applied to total_records_processed
    \* ---- EnterpriseDataProcessor (enterprise_processor.py) ----
    strict_mode,             \* config validation.strict_mode
    recovery_strategies,     \* error_handler.recovery_strategies[PROCESSING_ERROR], or NoStrategy
    input_records,           \* the records read from the input file, by kind
    ppc,                     \* where process_file stands: records, collect, outputs, done
    pr_error_records,        \* error_handler.error_records as the processor fills it
    pr_failures,             \* error_handler.consecutive_failures during the run
    pr_breaker,              \* error_handler.circuit_breaker_state during the run
    quarantine_queue,        \* error_handler.quarantine_queue
    escalated_errors,        \* lines of outputs/quarantine/escalated_errors.jsonl
    batch_results,           \* the batch's 'results' list, success_count and error_count
    clean_records,           \* self.clean_records
    stats,                   \* self.stats: total_records, valid_records, invalid_records
    output_files,            \* what the CSV and JSON writers wrote
    record_outcome,          \* history: what _process_single_record did for each record
    \* ---- DataProcessor.process_row (data_cleanup.py) ----
    raw_row,                 \* the row dict: the raw moveIn and balance values
    npc,                     \* where process_row stands: moveIn, balance, returned, raised
    cleaned,                 \* the cleaned dict as far as it is built
    \* ---- EnterpriseDataSecurity (data_security.py) ----
    encryption_key,          \* self.encryption_key
    mask_count,              \* history: mask_data calls so far
    mask_seen,               \* history: one earlier mask_data call, NoMask before it
    mask_between,            \* history: a call with other inputs followed mask_seen
    mask_last,               \* history: the latest mask_data call
    \* ---- EnterprisePerformanceMonitor.start_monitoring / stop_monitoring ----
    monitoring_active,       \* self.monitoring_active
    monitoring_thread,       \* self.monitoring_thread: 0 for None, else the Thread object
    sampler,                 \* the Thread objects made so far: position in _monitor_resources
    mon_pc,                  \* where the calling thread stands: idle, or join inside stop_monitoring
    mon_calls,               \* history: start_monitoring and stop_monitoring calls so far
    \* ---- EnterpriseDataProcessor._process_single_record, one record ----
    rc_record,               \* the local 'record': as read, then as protected
    rc_original,             \* history: the record the call was given
    rc_strict_mode,          \* config validation.strict_mode
    protection_level,        \* config data_security.protection_level
    validation_rules,        \* validator.validation_rules, as the schema loader left it
    rc_pc,                   \* where the try body stands
    validation_results,      \* the local validation_results
    pii_detections,          \* the local pii_detections, by field
    audit_log,               \* security.audit_log
    cleaned_record,          \* the local cleaned_record
    final_validation,        \* the local final_validation
    validation_issues,       \* self.validation_issues
    rc_quarantined,          \* the record was handed to quarantine_record
    rc_steps                 \* history: the steps taken, in order

idVars == <<seen_ids, issues, stats_issues, rows, ids>>

ehVars == <<max_retries, error_records, circuit_breaker_state, consecutive_failures,
            rpc, attempt, last_exception, delay, outcome, op_calls, op_fails,
            sleeps, lastSuccessAt>>

bmVars == <<total_records, batch_size, max_workers, error_threshold, mpc, batch_idx,
            cpos, total_success, total_errors, fstate, fresult, result, worker,
            current_batch, status_obj, batch_history, total_records_processed,
            collected, breached, applied_increments>>

prVars == <<strict_mode, recovery_strategies, input_records, ppc, pr_error_records,
            pr_failures, pr_breaker, quarantine_queue, escalated_errors,
            batch_results, clean_records, stats, output_files, record_outcome>>

nzVars == <<raw_row, npc, cleaned>>

msVars == <<encryption_key, mask_count, mask_seen, mask_between, mask_last>>

mtVars == <<monitoring_active, monitoring_thread, sampler, mon_pc, mon_calls>>

rcVars == <<rc_record, rc_original, rc_strict_mode, protection_level, validation_rules,
            rc_pc, validation_results, pii_detections, audit_log, cleaned_record,
            final_validation, validation_issues, rc_quarantined, rc_steps>>

vars == <<idVars, ehVars, bmVars, prVars, nzVars, msVars, mtVars, rcVars>>

\* what the actions of one component leave alone
otherThanId == <<ehVars, bmVars, prVars, nzVars, msVars, mtVars, rcVars>>
otherThanHandler == <<idVars, bmVars, prVars, nzVars, msVars, mtVars, rcVars>>
otherThanProcessor == <<idVars, ehVars, bmVars, nzVars, msVars, mtVars, rcVars>>
otherThanRow == <<ehVars, bmVars, prVars, msVars, mtVars, rcVars>>
otherThanMonitoring == <<idVars, ehVars, bmVars, prVars, nzVars, msVars, rcVars>>
otherThanRecord == <<idVars, ehVars, bmVars, prVars, nzVars, msVars, mtVars>>

(***************************************************************************)
(* Bounds                                                                  *)
(***************************************************************************)
MaxRows == 4         \* clean_id calls in one run
MaxErrors == 5       \* log_error calls on one handler
MaxRetries == 2      \* largest max_retries a handler is constructed with
MaxWorkers == 2      \* largest worker pool
MaxInput == 4        \* records in one input file
MaxThousandths == 150  \* largest amount, in thousandths, given to parse_currency
MaxMaskCalls == 3    \* mask_data calls on one instance
MaxThreads == 2      \* sampling threads one monitor creates
MaxMonitorCalls == 4 \* start_monitoring and stop_monitoring calls on one monitor

(***************************************************************************)
(* Text helpers: a raw value is a sequence of one-character strings.       *)
(***************************************************************************)
DigitChars == {"0", "1", "2", "3", "4", "5", "6", "7", "8", "9"}

\* str.strip() strips whitespace; the inputs use the blank as whitespace
IsSpace(c) == c = " "

DigitVal(c) ==
    CASE c = "0" -> 0 [] c = "1" -> 1 [] c = "2" -> 2 [] c = "3" -> 3
      [] c = "4" -> 4 [] c = "5" -> 5 [] c = "6" -> 6 [] c = "7" -> 7
      [] c = "8" -> 8 [] c = "9" -> 9

RECURSIVE LStrip(_)
LStrip(s) ==
    IF s = <<>> THEN <<>>
    ELSE IF IsSpace(Head(s)) THEN LStrip(Tail(s)) ELSE s

RECURSIVE RStrip(_)
RStrip(s) ==
    IF s = <<>> THEN <<>>
    ELSE IF IsSpace(s[Len(s)]) THEN RStrip(SubSeq(s, 1, Len(s) - 1)) ELSE s

\* value.strip()
Strip(s) == RStrip(LStrip(s))

\* re.sub(r"\D", "", s)
StripNonDigits(s) == SelectSeq(s, LAMBDA c : c \in DigitChars)

\* int(digits) for a non-empty string of decimal digits
RECURSIVE ToInt(_)
ToInt(d) ==
    IF d = <<>> THEN 0
    ELSE 10 * ToInt(SubSeq(d, 1, Len(d) - 1)) + DigitVal(d[Len(d)])

(***************************************************************************)
(* DataProcessor.clean_id                                                  *)
(***************************************************************************)
None == <<>>             \* Python's None as a result
Some(n) == <<n>>         \* an integer result

\* a remap that lands 1000 above the colliding identifier
DuplicateOffsetShort == 10000 - 9000

\* record_id = record_id + 10000
DuplicateOffset == 10000

\* the raw identifiers a run may meet
RawIds ==
    { <<"A", "1", "0", "0", "3">>,
      <<"1", "0", "0", "3", "X">>,
      <<"1", "1", "0", "0", "3">>,
      <<"2", "1", "0", "0", "3">>,
      <<" ", "0", "0", "7", " ">>,
      <<"7">>,
      <<"A", "B">>,
      <<" ">>,
      <<>> }

\* log_issue(row, field, value, issue)
LogIssue(row, field, value, issue) ==
    /\ issues' = Append(issues, <<row, field, value, issue>>)
    /\ stats_issues' = stats_issues + 1

\* clean_id(value, row); the result is appended to ids
CleanId(value, row) ==
    LET digits == StripNonDigits(Strip(value)) IN
    IF Strip(value) = <<>> \/ digits = <<>>
    THEN /\ ids' = Append(ids, None)
         /\ UNCHANGED <<seen_ids, issues, stats_issues>>
    ELSE LET record_id == ToInt(digits) IN
         IF record_id \in seen_ids
         THEN /\ LogIssue(row, "record_id", value, "duplicate ID")
              /\ seen_ids' = seen_ids \cup {record_id + DuplicateOffset}
              /\ ids' = Append(ids, Some(record_id + DuplicateOffset))
         ELSE /\ seen_ids' = seen_ids \cup {record_id}
              /\ ids' = Append(ids, Some(record_id))
              /\ UNCHANGED <<issues, stats_issues>>

\* one row of the run: the reader supplies a raw identifier, clean_id maps it
CleanIdCall ==
    /\ Len(rows) < MaxRows
    /\ \E value \in RawIds :
          /\ rows' = Append(rows, value)
          /\ CleanId(value, Len(rows) + 1)
    /\ UNCHANGED otherThanId

\* DataProcessor.__init__
IdInit ==
    /\ seen_ids = {}
    /\ issues = <<>>
    /\ stats_issues = 0
    /\ rows = <<>>
    /\ ids = <<>>

IdNext == CleanIdCall

(***************************************************************************)
(* EnterpriseErrorHandler                                                  *)
(***************************************************************************)
ErrorType == {"DATA_VALIDATION", "PROCESSING_ERROR", "IO_ERROR", "SYSTEM_ERROR",
              "CONFIGURATION_ERROR"}

ErrorSeverity == {"CRITICAL", "HIGH", "MEDIUM", "LOW"}

\* the kinds of error the callers of log_error report here
LoggedTypes == {"PROCESSING_ERROR"}

\* severity in [ErrorSeverity.CRITICAL, ErrorSeverity.HIGH]
BreakerSeverities == {"CRITICAL", "HIGH"}

\* a breaker that trips one failure early
BreakerThresholdEarly == 5 - 1

\* if self.consecutive_failures >= 5
BreakerThreshold == 5

\* default of max_retries
DefaultMaxRetries == 3

\* default of backoff_multiplier (2.0)
backoff_multiplier == 2

\* time.time() % 1 lies in [0, 1): sampled at both ends, in tenths
JitterTenths == {0, 9}

RECURSIVE Pow(_, _)
Pow(b, e) == IF e = 0 THEN 1 ELSE b * Pow(b, e - 1)

\* exceptions and results are told apart by the attempt that produced them
NoException == <<>>
CircuitOpen == <<"Circuit breaker is open - system in failure state">>
OpException(a) == <<"exception", a>>
OpResult(a) == <<"result", a>>

\* the breaker check of log_error after the record is appended
BreakerAfterLog(severity) ==
    IF severity \in BreakerSeverities
    THEN /\ consecutive_failures' = consecutive_failures + 1
         /\ circuit_breaker_state' =
                IF consecutive_failures + 1 >= BreakerThreshold
                THEN TRUE ELSE circuit_breaker_state
    ELSE UNCHANGED <<consecutive_failures, circuit_breaker_state>>

\* log_error(error_type, severity, ...); called between retry_with_backoff
\* calls or from inside the operation an attempt runs
LogError ==
    /\ Len(error_records) < MaxErrors
    /\ rpc # "sleeping"
    /\ \E error_type \in LoggedTypes, severity \in ErrorSeverity :
          /\ error_records' = Append(error_records,
                 [error_type |-> error_type, severity |-> severity,
                  retry_count |-> 0, resolved |-> FALSE])
          /\ BreakerAfterLog(severity)
    /\ UNCHANGED <<max_retries, rpc, attempt, last_exception, delay, outcome,
                   op_calls, op_fails, sleeps, lastSuccessAt>>
    /\ UNCHANGED otherThanHandler

\* the entry check that never finds the breaker open
BreakerBlocksNever == FALSE

\* if self.circuit_breaker_state: raise
BreakerBlocks == circuit_breaker_state

\* retry_with_backoff is entered: the breaker check and the loop set-up
RetryCall ==
    /\ rpc \in {"idle", "returned", "raised"}
    /\ IF BreakerBlocks
       THEN /\ rpc' = "raised"
            /\ outcome' = CircuitOpen
            /\ UNCHANGED <<attempt, last_exception>>
       ELSE /\ rpc' = "attempt"
            /\ attempt' = 0
            /\ last_exception' = NoException
            /\ outcome' = NoException
    /\ op_calls' = 0
    /\ op_fails' = 0
    /\ sleeps' = 0
    /\ delay' = 0
    /\ UNCHANGED <<max_retries, error_records, circuit_breaker_state,
                   consecutive_failures, lastSuccessAt>>
    /\ UNCHANGED otherThanHandler

\* an attempt's operation returns: the failure count is reset, the result returned
AttemptSucceeds ==
    /\ rpc = "attempt"
    /\ op_calls' = op_calls + 1
    /\ consecutive_failures' = 0
    /\ outcome' = OpResult(attempt)
    /\ rpc' = "returned"
    /\ lastSuccessAt' = Len(error_records)
    /\ UNCHANGED <<max_retries, error_records, circuit_breaker_state, attempt,
                   last_exception, delay, op_fails, sleeps>>
    /\ UNCHANGED otherThanHandler

\* the retries left after a failed attempt: one more than the code allows
MoreAttemptsExtra(a) == a < max_retries + 1

\* if attempt < self.max_retries
MoreAttempts(a) == a < max_retries

\* the wait after failed attempt a, in tenths of a second, for jitter j
BackoffDelay(a, j) == 10 * Pow(backoff_multiplier, a) + j

\* an attempt's operation raises: back off and retry, or give up and re-raise
AttemptFails ==
    /\ rpc = "attempt"
    /\ op_calls' = op_calls + 1
    /\ op_fails' = op_fails + 1
    /\ last_exception' = OpException(attempt)
    /\ IF MoreAttempts(attempt)
       THEN /\ \E j \in JitterTenths : delay' = BackoffDelay(attempt, j)
            /\ sleeps' = sleeps + 1
            /\ rpc' = "sleeping"
            /\ UNCHANGED outcome
       ELSE /\ rpc' = "raised"
            /\ outcome' = OpException(attempt)
            /\ UNCHANGED <<delay, sleeps>>
    /\ UNCHANGED <<max_retries, error_records, circuit_breaker_state,
                   consecutive_failures, attempt, lastSuccessAt>>
    /\ UNCHANGED otherThanHandler

\* time.sleep(delay) returns and the loop moves to the next attempt
Wake ==
    /\ rpc = "sleeping"
    /\ attempt' = attempt + 1
    /\ rpc' = "attempt"
    /\ delay' = 0
    /\ UNCHANGED <<max_retries, error_records, circuit_breaker_state,
                   consecutive_failures, last_exception, outcome, op_calls,
                   op_fails, sleeps, lastSuccessAt>>
    /\ UNCHANGED otherThanHandler

\* EnterpriseErrorHandler.__init__(max_retries = m)
EhInit(m) ==
    /\ max_retries = m
    /\ error_records = <<>>
    /\ circuit_breaker_state = FALSE
    /\ consecutive_failures = 0
    /\ rpc = "idle"
    /\ attempt = 0
    /\ last_exception = NoException
    /\ delay = 0
    /\ outcome = NoException
    /\ op_calls = 0
    /\ op_fails = 0
    /\ sleeps = 0
    /\ lastSuccessAt = 0

HandlerNext == LogError \/ RetryCall \/ AttemptSucceeds \/ AttemptFails \/ Wake

(***************************************************************************)
(* EnterprisePerformanceMonitor.process_in_batches                         *)
(***************************************************************************)
\* the runs modelled: <<len(data), batch_size>>, giving one to three batches,
\* with and without a short final batch
Layouts == {<<1, 1>>, <<2, 1>>, <<2, 2>>, <<3, 1>>, <<3, 2>>}

\* error thresholds the runner is called with, in percent (the default is 5)
ThresholdPercents == {5, 50}

\* what processor_func does with one record: return or raise
RecordOutcomes == {"ok", "error"}

\* num_batches = (total_records + batch_size - 1) // batch_size
NumBatches == (total_records + batch_size - 1) \div batch_size

Batches == 1..NumBatches

Min(a, b) == IF a < b THEN a ELSE b

\* len(data[lo:hi]) for 0 <= lo <= hi
SliceLen(lo, hi) == Min(hi, total_records) - Min(lo, total_records)

\* len(batch_data) of the batch with 0-based index i
BatchLen(i) == SliceLen(i * batch_size, i * batch_size + batch_size)

\* len(data[batch_idx * batch_size:(batch_idx + 1) * batch_size]) in the except
\* branch: batch_idx is what the submit loop left behind
FailedBatchLen == BatchLen(batch_idx)

\* total_errors / (total_success + total_errors) > error_threshold
Exceeds(errors, successes) == errors * 100 > error_threshold * (successes + errors)

\* remaining futures left as they are
CancelNothing(f) == f

\* for every future: if not done(): cancel(); only a pending future can be cancelled
CancelRemaining(f) ==
    [b \in DOMAIN f |-> IF f[b] = "pending" THEN "cancelled" ELSE f[b]]

NoStatus == [batch_id |-> 0, records_count |-> 0, success_count |-> 0,
             error_count |-> 0, status |-> "absent"]

IdleWorker == [pc |-> "idle", batch |-> 0, success_count |-> 0, error_count |-> 0,
               done |-> 0, read |-> 0]

NoResult == [success_count |-> 0, error_count |-> 0]

otherThanBatch == <<idVars, ehVars, prVars, nzVars, msVars, mtVars, rcVars>>

config == <<total_records, batch_size, max_workers, error_threshold>>

mainVars == <<mpc, batch_idx, cpos, total_success, total_errors, result, collected,
              breached>>

monitorVars == <<current_batch, status_obj, batch_history, total_records_processed,
                 applied_increments>>

\* executor.submit(self._process_single_batch, batch_id, batch_data, processor_func)
Submit ==
    /\ mpc = "submit"
    /\ LET b == Cardinality({x \in Batches : fstate[x] # "absent"}) + 1 IN
          /\ fstate' = [fstate EXCEPT ![b] = "pending"]
          /\ batch_idx' = b - 1
          /\ mpc' = IF b = NumBatches THEN "collect" ELSE "submit"
    /\ UNCHANGED <<cpos, total_success, total_errors, result, collected, breached,
                   fresult, worker>>
    /\ UNCHANGED <<config, monitorVars, otherThanBatch>>

\* the collect loop moves to the next future, or the with block is left
Advance ==
    IF cpos = NumBatches
    THEN mpc' = "shutdown" /\ cpos' = cpos
    ELSE mpc' = "collect" /\ cpos' = cpos + 1

\* future.result() returns the batch result: counts added, threshold checked
CollectResult ==
    /\ mpc = "collect"
    /\ fstate[cpos] = "returned"
    /\ total_success' = total_success + fresult[cpos].success_count
    /\ total_errors' = total_errors + fresult[cpos].error_count
    /\ collected' = Append(collected, "result")
    /\ IF Exceeds(total_errors', total_success')
       THEN /\ fstate' = CancelRemaining(fstate)
            /\ breached' = TRUE
            /\ mpc' = "shutdown"
            /\ cpos' = cpos
       ELSE /\ Advance
            /\ UNCHANGED <<fstate, breached>>
    /\ UNCHANGED <<batch_idx, result, fresult, worker>>
    /\ UNCHANGED <<config, monitorVars, otherThanBatch>>

\* future.result(timeout=300) raises: the batch raised, or it is not done in time
CollectException ==
    /\ mpc = "collect"
    /\ fstate[cpos] \in {"raised", "pending", "running"}
    /\ total_errors' = total_errors + FailedBatchLen
    /\ collected' = Append(collected, "exception")
    /\ Advance
    /\ UNCHANGED <<batch_idx, total_success, result, breached, fstate, fresult,
                   worker>>
    /\ UNCHANGED <<config, monitorVars, otherThanBatch>>

\* leaving the with block joins the pool (shutdown(wait=True)); then the
\* result dict is built and returned
ShutdownAndReturn ==
    /\ mpc = "shutdown"
    /\ \A b \in Batches : fstate[b] \notin {"pending", "running"}
    /\ result' = [total_records |-> total_records, success_count |-> total_success,
                  error_count |-> total_errors]
    /\ mpc' = "done"
    /\ UNCHANGED <<batch_idx, cpos, total_success, total_errors, collected, breached,
                   fstate, fresult, worker>>
    /\ UNCHANGED <<config, monitorVars, otherThanBatch>>

\* a pool thread takes the oldest pending work item and runs
\* _process_single_batch up to start_batch; idle threads are interchangeable,
\* so the lowest-numbered idle one is the one that takes it
StartBatch(w) ==
    /\ worker[w].pc = "idle"
    /\ \A v \in 1..(w - 1) : worker[v].pc # "idle"
    /\ \E b \in Batches :
          /\ fstate[b] = "pending"
          /\ \A x \in Batches : x < b => fstate[x] # "pending"
          /\ fstate' = [fstate EXCEPT ![b] = "running"]
          /\ worker' = [worker EXCEPT ![w] =
                [IdleWorker EXCEPT !.pc = "records", !.batch = b]]
          /\ current_batch' = b
          /\ status_obj' = [status_obj EXCEPT ![b] =
                [batch_id |-> b, records_count |-> BatchLen(b - 1),
                 success_count |-> 0, error_count |-> 0, status |-> "processing"]]
    /\ UNCHANGED <<batch_history, total_records_processed, applied_increments,
                   fresult>>
    /\ UNCHANGED <<config, mainVars, otherThanBatch>>

\* processor_func(record) for the next record of the batch
ProcessRecord(w) ==
    /\ worker[w].pc = "records"
    /\ worker[w].done < BatchLen(worker[w].batch - 1)
    /\ \E o \in RecordOutcomes :
          /\ worker' = [worker EXCEPT ![w] =
                [@ EXCEPT !.done = @ + 1,
                          !.success_count = IF o = "ok" THEN @ + 1 ELSE @,
                          !.error_count = IF o = "ok" THEN @ ELSE @ + 1]]
    /\ UNCHANGED <<fstate, fresult>>
    /\ UNCHANGED <<config, mainVars, monitorVars, otherThanBatch>>

\* the future of worker w's batch completes with the batch result
Return(w) ==
    /\ fstate' = [fstate EXCEPT ![worker[w].batch] = "returned"]
    /\ fresult' = [fresult EXCEPT ![worker[w].batch] =
          [success_count |-> worker[w].success_count,
           error_count |-> worker[w].error_count]]
    /\ worker' = [worker EXCEPT ![w] = IdleWorker]

\* complete_batch: if not self.current_batch: return
CompleteCheck(w) ==
    /\ worker[w].pc = "records"
    /\ worker[w].done = BatchLen(worker[w].batch - 1)
    /\ IF current_batch = 0
       THEN Return(w)
       ELSE /\ worker' = [worker EXCEPT ![w].pc = "finalize"]
            /\ UNCHANGED <<fstate, fresult>>
    /\ UNCHANGED <<config, mainVars, monitorVars, otherThanBatch>>

\* complete_batch: end_time, success_count, error_count, processing_time and
\* status are written to whatever self.current_batch refers to
Finalize(w) ==
    /\ worker[w].pc = "finalize"
    /\ IF current_batch = 0
       THEN /\ worker' = [worker EXCEPT ![w].pc = "except"]
            /\ UNCHANGED status_obj
       ELSE /\ status_obj' = [status_obj EXCEPT ![current_batch] =
                  [@ EXCEPT !.success_count = worker[w].success_count,
                            !.error_count = worker[w].error_count,
                            !.status = IF worker[w].error_count = 0
                                       THEN "completed" ELSE "partial_failure"]]
            /\ worker' = [worker EXCEPT ![w].pc = "stats_read"]
    /\ UNCHANGED <<current_batch, batch_history, total_records_processed,
                   applied_increments, fstate, fresult>>
    /\ UNCHANGED <<config, mainVars, otherThanBatch>>

\* resource_stats['total_records_processed'] += success_count: the load
StatsRead(w) ==
    /\ worker[w].pc = "stats_read"
    /\ worker' = [worker EXCEPT ![w].pc = "stats_write",
                                ![w].read = total_records_processed]
    /\ UNCHANGED <<fstate, fresult>>
    /\ UNCHANGED <<config, mainVars, monitorVars, otherThanBatch>>

\* resource_stats['total_records_processed'] += success_count: the store
StatsWrite(w) ==
    /\ worker[w].pc = "stats_write"
    /\ total_records_processed' = worker[w].read + worker[w].success_count
    /\ applied_increments' = applied_increments + worker[w].success_count
    /\ worker' = [worker EXCEPT ![w].pc = "append", ![w].read = 0]
    /\ UNCHANGED <<current_batch, status_obj, batch_history, fstate, fresult>>
    /\ UNCHANGED <<config, mainVars, otherThanBatch>>

\* self.batch_history.append(self.current_batch)
AppendHistory(w) ==
    /\ worker[w].pc = "append"
    /\ batch_history' = Append(batch_history, current_batch)
    /\ worker' = [worker EXCEPT ![w].pc = "log"]
    /\ UNCHANGED <<current_batch, status_obj, total_records_processed,
                   applied_increments, fstate, fresult>>
    /\ UNCHANGED <<config, mainVars, otherThanBatch>>

\* the closing log line reads self.current_batch.records_count and .batch_id
LogCompleted(w) ==
    /\ worker[w].pc = "log"
    /\ worker' = [worker EXCEPT ![w].pc =
          IF current_batch = 0 THEN "except" ELSE "clear"]
    /\ UNCHANGED <<fstate, fresult>>
    /\ UNCHANGED <<config, mainVars, monitorVars, otherThanBatch>>

\* self.current_batch = None, then _process_single_batch returns its dict
ClearAndReturn(w) ==
    /\ worker[w].pc = "clear"
    /\ current_batch' = 0
    /\ Return(w)
    /\ UNCHANGED <<status_obj, batch_history, total_records_processed,
                   applied_increments>>
    /\ UNCHANGED <<config, mainVars, otherThanBatch>>

\* except Exception in _process_single_batch: mark the current batch failed, re-raise
ExceptAndRaise(w) ==
    /\ worker[w].pc = "except"
    /\ status_obj' = IF current_batch = 0 THEN status_obj
                     ELSE [status_obj EXCEPT ![current_batch].status = "failed"]
    /\ fstate' = [fstate EXCEPT ![worker[w].batch] = "raised"]
    /\ worker' = [worker EXCEPT ![w] = IdleWorker]
    /\ UNCHANGED <<current_batch, batch_history, total_records_processed,
                   applied_increments, fresult>>
    /\ UNCHANGED <<config, mainVars, otherThanBatch>>

\* the pool threads
Workers == 1..max_workers

\* each step of _process_single_batch, taken by some pool thread
WorkerStartBatch == \E w \in Workers : StartBatch(w)

WorkerProcessRecord == \E w \in Workers : ProcessRecord(w)

WorkerCompleteCheck == \E w \in Workers : CompleteCheck(w)

WorkerFinalize == \E w \in Workers : Finalize(w)

WorkerStatsRead == \E w \in Workers : StatsRead(w)

WorkerStatsWrite == \E w \in Workers : StatsWrite(w)

WorkerAppendHistory == \E w \in Workers : AppendHistory(w)

WorkerLogCompleted == \E w \in Workers : LogCompleted(w)

WorkerClearAndReturn == \E w \in Workers : ClearAndReturn(w)

WorkerExceptAndRaise == \E w \in Workers : ExceptAndRaise(w)

\* EnterprisePerformanceMonitor.__init__ and the entry of
\* process_in_batches(data, batch_size, processor_func, max_workers, error_threshold)
BmInit(n, size, workers, threshold) ==
    /\ total_records = n
    /\ batch_size = size
    /\ max_workers = workers
    /\ error_threshold = threshold
    /\ mpc = "submit"
    /\ batch_idx = 0
    /\ cpos = 1
    /\ total_success = 0
    /\ total_errors = 0
    /\ fstate = [b \in 1..((n + size - 1) \div size) |-> "absent"]
    /\ fresult = [b \in 1..((n + size - 1) \div size) |-> NoResult]
    /\ result = [total_records |-> 0, success_count |-> 0, error_count |-> 0]
    /\ worker = [w \in 1..workers |-> IdleWorker]
    /\ current_batch = 0
    /\ status_obj = [b \in 1..((n + size - 1) \div size) |-> NoStatus]
    /\ batch_history = <<>>
    /\ total_records_processed = 0
    /\ collected = <<>>
    /\ breached = FALSE
    /\ applied_increments = 0

BatchNext ==
    \/ Submit
    \/ CollectResult
    \/ CollectException
    \/ ShutdownAndReturn
    \/ WorkerStartBatch
    \/ WorkerProcessRecord
    \/ WorkerCompleteCheck
    \/ WorkerFinalize
    \/ WorkerStatsRead
    \/ WorkerStatsWrite
    \/ WorkerAppendHistory
    \/ WorkerLogCompleted
    \/ WorkerClearAndReturn
    \/ WorkerExceptAndRaise

(***************************************************************************)
(* Binary floating point as float(), * and round() compute it: a finite    *)
(* non-zero double is sign * bits * 2^exp, bits being a sequence of at most *)
(* MantissaBits binary digits, most significant first, starting with 1.    *)
(***************************************************************************)
\* the significand width of a Python float (IEEE 754 double)
MantissaBits == 53

\* sys.float_info.max_10_exp: decimal exponents above it overflow to inf
Max10Exp == 308

\* s without its last element
Front(s) == SubSeq(s, 1, Len(s) - 1)

RECURSIVE Pow2(_)
Pow2(n) == IF n = 0 THEN 1 ELSE 2 * Pow2(n - 1)

\* the number of binary digits of a natural number
RECURSIVE BitLength(_)
BitLength(n) == IF n = 0 THEN 0 ELSE 1 + BitLength(n \div 2)

\* the binary digits of a natural number
NatBits(n) == [i \in 1..BitLength(n) |-> (n \div Pow2(BitLength(n) - i)) % 2]

Zeros(n) == [i \in 1..n |-> 0]

HasOne(b) == \E i \in 1..Len(b) : b[i] = 1

\* b without leading zeros
Normal(b) ==
    IF ~HasOne(b) THEN <<>>
    ELSE SubSeq(b, CHOOSE i \in 1..Len(b) : b[i] = 1 /\ \A j \in 1..(i - 1) : b[j] = 0,
                Len(b))

\* the natural number a digit sequence denotes
RECURSIVE BitsNat(_)
BitsNat(b) == IF b = <<>> THEN 0 ELSE 2 * BitsNat(Front(b)) + b[Len(b)]

\* digit i of b counted from the least significant one (1 is the last digit)
Digit(b, i) == IF i <= Len(b) THEN b[Len(b) + 1 - i] ELSE 0

\* the carry into digit i of a + b: some lower digit generates a carry and
\* every digit between passes it on
CarryInto(a, b, i) ==
    \E j \in 1..(i - 1) :
        /\ Digit(a, j) + Digit(b, j) = 2
        /\ \A k \in (j + 1)..(i - 1) : Digit(a, k) + Digit(b, k) = 1

\* a + b
AddBits(a, b) ==
    LET n == (IF Len(a) > Len(b) THEN Len(a) ELSE Len(b)) + 1
    IN  Normal([p \in 1..n |->
                  (Digit(a, n + 1 - p) + Digit(b, n + 1 - p)
                     + IF CarryInto(a, b, n + 1 - p) THEN 1 ELSE 0) % 2])

\* b + 1
Incr(b) == AddBits(b, <<1>>)

\* b * k for a natural number k
RECURSIVE MulBits(_, _)
MulBits(b, k) ==
    IF k = 0 THEN <<>>
    ELSE IF k % 2 = 1 THEN AddBits(b, Append(MulBits(b, k \div 2), 0))
    ELSE Append(MulBits(b, k \div 2), 0)

Zero == [kind |-> "zero"]
Inf(sign) == [kind |-> "inf", sign |-> sign]
NaN == [kind |-> "nan"]
Finite(sign, bits, exp) == [kind |-> "finite", sign |-> sign, bits |-> bits, exp |-> exp]

\* round-to-nearest, ties-to-even, of the exact value b * 2^exp (plus a
\* non-zero remainder below the last digit when sticky) to MantissaBits digits
RoundToDouble(sign, b, exp, sticky) ==
    LET n == Normal(b) IN
    IF n = <<>> THEN Zero
    ELSE IF Len(n) <= MantissaBits THEN Finite(sign, n, exp)
    ELSE LET keep == SubSeq(n, 1, MantissaBits)
             rest == SubSeq(n, MantissaBits + 1, Len(n))
             more == HasOne(Tail(rest)) \/ sticky
             up == rest[1] = 1 /\ (more \/ keep[MantissaBits] = 1)
             kept == IF up THEN Incr(keep) ELSE keep
             shift == Len(n) - MantissaBits
         IN  IF Len(kept) > MantissaBits
             THEN Finite(sign, Front(kept), exp + shift + 1)
             ELSE Finite(sign, kept, exp + shift)

\* 2^n modulo den
RECURSIVE Pow2Mod(_, _)
Pow2Mod(n, den) == IF n = 0 THEN 1 % den ELSE (2 * Pow2Mod(n - 1, den)) % den

\* the remainder left after n binary digits of rem / den
RemainderAfter(rem, den, n) == (rem * Pow2Mod(n, den)) % den

\* binary digit n of the fraction rem / den
FractionBit(rem, den, n) ==
    IF 2 * RemainderAfter(rem, den, n - 1) >= den THEN 1 ELSE 0

\* the double nearest to num / den (num >= 0, den > 0)
NearestDouble(sign, num, den) ==
    LET whole == NatBits(num \div den)
        rem == num % den
        \* binary digits of the fraction up to its first 1, when whole is 0
        lead == IF whole # <<>> \/ rem = 0 THEN 0
                ELSE CHOOSE z \in 1..BitLength(den) :
                        /\ FractionBit(rem, den, z) = 1
                        /\ \A y \in 1..(z - 1) : FractionBit(rem, den, y) = 0
        want == IF whole # <<>> THEN MantissaBits + 1 - Len(whole)
                ELSE lead + MantissaBits
        n == IF rem = 0 \/ want < 0 THEN 0 ELSE want
        fraction == [i \in 1..n |-> FractionBit(rem, den, i)]
    IN  RoundToDouble(sign, whole \o fraction, 0 - n,
                      RemainderAfter(rem, den, n) # 0)

\* f * k, k a natural number that is itself a double (1000, 100)
MulFloat(f, k) ==
    IF f.kind = "finite"
    THEN RoundToDouble(f.sign, MulBits(f.bits, k), f.exp, FALSE)
    ELSE f

\* round(f) for a finite float: to the nearest integer, ties to the even one
RoundHalfEven(f) ==
    IF f.kind = "zero" THEN 0
    ELSE IF f.exp >= 0 THEN f.sign * BitsNat(f.bits) * Pow2(f.exp)
    ELSE LET n == 0 - f.exp
             padded == Zeros(n + 1) \o f.bits
             whole == SubSeq(padded, 1, Len(padded) - n)
             frac == SubSeq(padded, Len(padded) - n + 1, Len(padded))
             up == frac[1] = 1 /\ (HasOne(Tail(frac)) \/ whole[Len(whole)] = 1)
         IN  f.sign * (BitsNat(Normal(whole)) + IF up THEN 1 ELSE 0)

(***************************************************************************)
(* Text: letters, searching and replacing                                  *)
(***************************************************************************)
UpperLetters == <<"A", "B", "C", "D", "E", "F", "G", "H", "I", "J", "K", "L", "M", "N", "O", "P", "Q", "R", "S", "T", "U", "V", "W", "X", "Y", "Z">>
LowerLetters == <<"a", "b", "c", "d", "e", "f", "g", "h", "i", "j", "k", "l", "m", "n", "o", "p", "q", "r", "s", "t", "u", "v", "w", "x", "y", "z">>

IsLetter(c) == \E i \in 1..Len(UpperLetters) : c = UpperLetters[i] \/ c = LowerLetters[i]

LetterIndex(letters, c) == CHOOSE i \in 1..Len(letters) : letters[i] = c

\* str.lower(), one character at a time
Lower(c) ==
    IF \E i \in 1..Len(UpperLetters) : UpperLetters[i] = c
    THEN LowerLetters[LetterIndex(UpperLetters, c)] ELSE c

LowerStr(s) == [i \in 1..Len(s) |-> Lower(s[i])]

\* Python's None passed where a string is expected (a field missing from a
\* short row read by csv.DictReader)
NoneValue == <<"None">>

\* "not value": None and the empty string are falsy
Falsy(value) == value = NoneValue \/ value = <<>>

\* "c in s"
Contains(s, c) == \E i \in 1..Len(s) : s[i] = c

\* s.find(c) + 1: the first position of c in s, 0 when there is none
IndexOf(s, c) ==
    IF Contains(s, c)
    THEN CHOOSE i \in 1..Len(s) : s[i] = c /\ \A j \in 1..(i - 1) : s[j] # c
    ELSE 0

\* s.startswith(p), s.endswith(p)
StartsWith(s, p) == Len(p) <= Len(s) /\ SubSeq(s, 1, Len(p)) = p
EndsWith(s, p) == Len(p) <= Len(s) /\ SubSeq(s, Len(s) - Len(p) + 1, Len(s)) = p

\* s.replace(p, r) for a non-empty p
RECURSIVE Replace(_, _, _)
Replace(s, p, r) ==
    IF s = <<>> THEN <<>>
    ELSE IF StartsWith(s, p) THEN r \o Replace(SubSeq(s, Len(p) + 1, Len(s)), p, r)
    ELSE <<Head(s)>> \o Replace(Tail(s), p, r)

\* every character of s is a decimal digit (true of the empty string)
IsDigits(s) == \A i \in 1..Len(s) : s[i] \in DigitChars

\* str(n) for a natural number
RECURSIVE ToDigits(_)
ToDigits(n) ==
    IF n < 10 THEN <<CHOOSE c \in DigitChars : DigitVal(c) = n>>
    ELSE Append(ToDigits(n \div 10), CHOOSE c \in DigitChars : DigitVal(c) = n % 10)

(***************************************************************************)
(* float(text)                                                             *)
(***************************************************************************)
ValueError == [kind |-> "ValueError"]

\* float(value): optional sign, then inf, infinity, nan, or a decimal numeral
\* with an optional exponent; anything else raises ValueError
PyFloat(value) ==
    LET s == LowerStr(Strip(value))
        signed == s # <<>> /\ s[1] \in {"+", "-"}
        sign == IF signed /\ s[1] = "-" THEN 0 - 1 ELSE 1
        body == IF signed THEN Tail(s) ELSE s
        e == IndexOf(body, "e")
        mant == IF e = 0 THEN body ELSE SubSeq(body, 1, e - 1)
        expo == IF e = 0 THEN <<>> ELSE SubSeq(body, e + 1, Len(body))
        esigned == expo # <<>> /\ expo[1] \in {"+", "-"}
        edigits == IF esigned THEN Tail(expo) ELSE expo
        dot == IndexOf(mant, ".")
        ip == IF dot = 0 THEN mant ELSE SubSeq(mant, 1, dot - 1)
        fp == IF dot = 0 THEN <<>> ELSE SubSeq(mant, dot + 1, Len(mant))
        wellformed == /\ IsDigits(ip) /\ IsDigits(fp) /\ ip \o fp # <<>>
                      /\ e = 0 \/ (edigits # <<>> /\ IsDigits(edigits))
        exp10 == (IF e = 0 THEN 0
                  ELSE (IF esigned /\ expo[1] = "-" THEN 0 - 1 ELSE 1) * ToInt(edigits))
                 - Len(fp)
        m == ToInt(ip \o fp)
    IN  IF body \in {<<"i", "n", "f">>, <<"i", "n", "f", "i", "n", "i", "t", "y">>} THEN Inf(sign)
        ELSE IF body = <<"n", "a", "n">> THEN NaN
        ELSE IF ~wellformed THEN ValueError
        ELSE IF m = 0 THEN Zero
        ELSE IF exp10 + Len(ToDigits(m)) - 1 > Max10Exp THEN Inf(sign)
        ELSE IF exp10 >= 0 THEN NearestDouble(sign, m * Pow(10, exp10), 1)
        ELSE NearestDouble(sign, m, Pow(10, 0 - exp10))

(***************************************************************************)
(* DataProcessor.parse_currency, clean_currency                            *)
(***************************************************************************)
\* what a call did
Returned(v) == [did |-> "returned", value |-> v]
Raised(exception) == [did |-> "raised", value |-> exception]

\* CURRENCY_SYMBOLS, in the order the loop removes them; the signs outside
\* ASCII are written by name
CURRENCY_SYMBOLS ==
    << <<"$">>, <<"<euro>">>, <<"<pound>">>, <<"<yen>">>, <<"<shekel>">>,
       <<"<ruble>">>, <<"U", "S", "D">>, <<"E", "U", "R">>, <<"G", "B", "P">>, <<"H", "K", "D">>, <<"H", "K", "$">> >>

\* for symbol in CURRENCY_SYMBOLS: value = value.replace(symbol, "")
RECURSIVE RemoveSymbols(_, _)
RemoveSymbols(value, symbols) ==
    IF symbols = <<>> THEN value
    ELSE RemoveSymbols(Replace(value, Head(symbols), <<>>), Tail(symbols))

\* value.replace(" ", "").replace(",", "")
RemoveBlanksAndCommas(value) == Replace(Replace(value, <<" ">>, <<>>), <<",">>, <<>>)

\* the separator rule of lines 149-152
ResolveSeparators(value) ==
    IF ~Contains(value, ".") /\ Contains(value, ",")
    THEN Replace(value, <<",">>, <<".">>)
    ELSE IF Contains(value, ",") /\ Contains(value, ".")
    THEN Replace(value, <<",">>, <<>>)
    ELSE value

\* re.match(r"^\d+\.?\d*e\d+$", value, re.IGNORECASE)
IsScientific(value) ==
    LET s == LowerStr(value)
        e == IndexOf(s, "e")
        head == SubSeq(s, 1, e - 1)
        tail == SubSeq(s, e + 1, Len(s))
        dot == IndexOf(head, ".")
        ip == IF dot = 0 THEN head ELSE SubSeq(head, 1, dot - 1)
        fp == IF dot = 0 THEN <<>> ELSE SubSeq(head, dot + 1, Len(head))
    IN  /\ e > 0
        /\ ip # <<>> /\ IsDigits(ip) /\ IsDigits(fp)
        /\ tail # <<>> /\ IsDigits(tail)

\* int(round(x)), negated for a parenthesized amount, inside try/except
\* ValueError: float() failing and round(nan) give 0, round(inf) raises
\* OverflowError, which nothing catches
Cents(f, is_negative) ==
    CASE f.kind \in {"ValueError", "nan"} -> Returned(0)
      [] f.kind = "inf" -> Raised("OverflowError")
      [] OTHER -> Returned(IF is_negative THEN 0 - RoundHalfEven(f) ELSE RoundHalfEven(f))

\* parse_currency(value)
ParseCurrency(value) ==
    IF Falsy(value) \/ Strip(value) = <<>> THEN Returned(0)
    ELSE LET stripped == Strip(value)
             is_negative == StartsWith(stripped, <<"(">>) /\ EndsWith(stripped, <<")">>)
             inner == IF is_negative THEN SubSeq(stripped, 2, Len(stripped) - 1)
                      ELSE stripped
             text == ResolveSeparators(
                        RemoveBlanksAndCommas(RemoveSymbols(inner, CURRENCY_SYMBOLS)))
         IN  IF IsScientific(text)
             THEN Cents(MulFloat(PyFloat(text), 100), is_negative)
             ELSE IF EndsWith(LowerStr(text), <<"k">>)
             THEN Cents(MulFloat(MulFloat(PyFloat(Front(text)), 1000), 100), is_negative)
             ELSE Cents(MulFloat(PyFloat(text), 100), is_negative)

\* clean_currency(value, row)
CleanCurrency(value) == ParseCurrency(value)

\* cents / 100: the double nearest to the quotient
CentsToAmount(cents) ==
    IF cents = 0 THEN Zero
    ELSE NearestDouble(IF cents < 0 THEN 0 - 1 ELSE 1,
                       IF cents < 0 THEN 0 - cents ELSE cents, 100)

\* format(x, ".2f"): the exact value of x rounded to two decimals
TwoDecimals(f) ==
    LET hundredths ==
            IF f.kind = "zero" THEN 0
            ELSE RoundHalfEven(Finite(1, MulBits(f.bits, 100), f.exp))
        frac == ToDigits(hundredths % 100)
    IN  (IF f.kind = "finite" /\ f.sign < 0 THEN <<"-">> ELSE <<>>)
        \o ToDigits(hundredths \div 100) \o <<".">>
        \o (IF Len(frac) = 1 THEN <<"0">> ELSE <<>>) \o frac

\* a report that prints one decimal only
FormatOneDecimal(cents) == <<"$">> \o Front(TwoDecimals(CentsToAmount(cents)))

\* f"${(balance_cents / 100):.2f}" of generate_html_report
FormatBalance(cents) == <<"$">> \o TwoDecimals(CentsToAmount(cents))

\* the amounts 0.000, 0.001, ... written with three decimals
ThousandthsText(n) ==
    LET frac == ToDigits(n % 1000)
    IN  ToDigits(n \div 1000) \o <<".">>
        \o (IF Len(frac) = 1 THEN <<"0", "0">> ELSE IF Len(frac) = 2 THEN <<"0">> ELSE <<>>)
        \o frac

\* the raw balances a run may meet
RawBalances ==
    { <<"$", "1", ",", "2", "3", "4", ".", "5", "6">>,
      <<"(", "5", "0", "0", ".", "0", "0", ")">>,
      <<"2", "k">>,
      <<"1", ",", "2", "3">>,
      <<"(", "1", ",", "2", "3", ")">>,
      <<"1", ".", "5", "K">>,
      <<"1", "e", "2">>,
      <<"1", ".", "5", "E", "2">>,
      <<"i", "n", "f">>,
      <<"1", "e", "9", "9", "9">>,
      <<"n", "a", "n">>,
      <<"-", "5", ".", "5", "0">>,
      <<"$", "-", "5">>,
      <<"U", "S", "D", " ", "1", "2">>,
      <<"0", ".", "1", "2", "5">>,
      <<"1", ".", "2", "5", "5">>,
      <<".", "5">>,
      <<"5", ".">>,
      <<"a", "b", "c">>,
      <<"1", ".", "2", ".", "3">>,
      <<"(", ")">>,
      <<"$">>,
      <<" ", "7", " ">>,
      <<"(", "0", ".", "0", "0", "4", ")">>,
      <<"1", "2", ".", "3", "4", "5", "k">>,
      <<"+", "3">> }
    \cup {ThousandthsText(n) : n \in 0..MaxThousandths}
    \cup {NoneValue, <<>>, <<" ">>}

(***************************************************************************)
(* datetime.strptime: a format is a sequence of directives and literal     *)
(* characters; a date is <<year, month, day, second>>.                     *)
(***************************************************************************)
\* DATE_FORMATS, in the order parse_date tries them
DATE_FORMATS ==
    << <<"%Y", "-", "%m", "-", "%d">>,
       <<"%Y", "/", "%m", "/", "%d">>,
       <<"%m", "/", "%d", "/", "%Y">>,
       <<"%m", "/", "%d", "/", "%y">>,
       <<"%d", "/", "%m", "/", "%Y">>,
       <<"%d", "-", "%m", "-", "%Y">>,
       <<"%m", "-", "%d", "-", "%Y">>,
       <<"%b", " ", "%d", " ", "%Y">>,
       <<"%d", " ", "%b", " ", "%Y">>,
       <<"%B", " ", "%d", " ", "%Y">>,
       <<"%d", " ", "%B", " ", "%Y">>,
       <<"%Y", "%m", "%d">>,
       <<"%d", "-", "%b", "-", "%Y">>,
       <<"%d", "-", "%b", "-", "%y">>,
       <<"%Y", "-", "%m", "-", "%d", " ", "%H", ":", "%M">>,
       <<"%Y", "-", "%m", "-", "%d", " ", "%H", ":", "%M", ":", "%S">>,
       <<"%B", " ", "%d", "s", "t", " ", "%Y">>,
       <<"%B", " ", "%d", "n", "d", " ", "%Y">>,
       <<"%B", " ", "%d", "r", "d", " ", "%Y">>,
       <<"%B", " ", "%d", "t", "h", " ", "%Y">> >>

\* the month names of %B and %b, lower case (the match ignores case)
FullMonths ==
    << <<"j", "a", "n", "u", "a", "r", "y">>,
       <<"f", "e", "b", "r", "u", "a", "r", "y">>,
       <<"m", "a", "r", "c", "h">>,
       <<"a", "p", "r", "i", "l">>,
       <<"m", "a", "y">>,
       <<"j", "u", "n", "e">>,
       <<"j", "u", "l", "y">>,
       <<"a", "u", "g", "u", "s", "t">>,
       <<"s", "e", "p", "t", "e", "m", "b", "e", "r">>,
       <<"o", "c", "t", "o", "b", "e", "r">>,
       <<"n", "o", "v", "e", "m", "b", "e", "r">>,
       <<"d", "e", "c", "e", "m", "b", "e", "r">> >>
ShortMonths ==
    << <<"j", "a", "n">>,
       <<"f", "e", "b">>,
       <<"m", "a", "r">>,
       <<"a", "p", "r">>,
       <<"m", "a", "y">>,
       <<"j", "u", "n">>,
       <<"j", "u", "l">>,
       <<"a", "u", "g">>,
       <<"s", "e", "p">>,
       <<"o", "c", "t">>,
       <<"n", "o", "v">>,
       <<"d", "e", "c">> >>

\* one way a directive can match at the start of the text: the characters it
\* consumes, the date field it sets (0 for none) and the value
Candidate(len, field, value) == [len |-> len, field |-> field, value |-> value]

\* the number the first n characters spell, -1 when they are not n digits
Digits(s, n) ==
    IF Len(s) >= n /\ IsDigits(SubSeq(s, 1, n)) THEN ToInt(SubSeq(s, 1, n)) ELSE 0 - 1

\* a numeric directive: its two-digit alternatives, then its one-digit one
Numeric(s, field, two, one) ==
    (IF Digits(s, 2) \in two THEN <<Candidate(2, field, Digits(s, 2))>> ELSE <<>>)
    \o (IF Digits(s, 1) \in one THEN <<Candidate(1, field, Digits(s, 1))>> ELSE <<>>)

\* a month-name directive
Named(s, names) ==
    LET hits == {i \in 1..Len(names) : StartsWith(LowerStr(s), names[i])}
    IN  IF hits = {} THEN <<>>
        ELSE LET i == CHOOSE i \in hits : \A j \in hits : Len(names[j]) <= Len(names[i])
             IN  <<Candidate(Len(names[i]), 2, i)>>

\* the length of the run of blanks the text starts with
RECURSIVE BlankRun(_)
BlankRun(s) == IF s = <<>> \/ ~IsSpace(Head(s)) THEN 0 ELSE 1 + BlankRun(Tail(s))

\* %y: 69..99 are 1969..1999, 0..68 are 2000..2068
TwoDigitYear(n) == IF n >= 69 THEN 1900 + n ELSE 2000 + n

\* the alternatives of a directive or literal at the start of s, in the
\* order the regular expression of _strptime tries them
Candidates(token, s) ==
    CASE token = "%Y" ->
             IF Digits(s, 4) >= 0 THEN <<Candidate(4, 1, Digits(s, 4))>> ELSE <<>>
      [] token = "%y" ->
             IF Digits(s, 2) >= 0 THEN <<Candidate(2, 1, TwoDigitYear(Digits(s, 2)))>>
             ELSE <<>>
      [] token = "%m" -> Numeric(s, 2, 1..12, 1..9)
      [] token = "%d" ->
             Numeric(s, 3, 1..31, 1..9)
             \o (IF Len(s) >= 2 /\ s[1] = " " /\ Digits(Tail(s), 1) \in 1..9
                 THEN <<Candidate(2, 3, Digits(Tail(s), 1))>> ELSE <<>>)
      [] token = "%H" -> Numeric(s, 0, 0..23, 0..9)
      [] token = "%M" -> Numeric(s, 0, 0..59, 0..9)
      [] token = "%S" -> Numeric(s, 4, 0..61, 0..9)
      [] token = "%b" -> Named(s, ShortMonths)
      [] token = "%B" -> Named(s, FullMonths)
      [] token = " " -> [k \in 1..BlankRun(s) |-> Candidate(BlankRun(s) + 1 - k, 0, 0)]
      [] OTHER ->
             IF s # <<>> /\ Lower(s[1]) = Lower(token) THEN <<Candidate(1, 0, 0)>>
             ELSE <<>>

NoMatch == [ok |-> FALSE, rest |-> <<>>, date |-> <<0, 0, 0, 0>>]

\* the first of the tries that matched
FirstMatch(tries) ==
    LET good == {i \in 1..Len(tries) : tries[i].ok}
    IN  IF good = {} THEN NoMatch
        ELSE tries[CHOOSE i \in good : \A j \in good : i <= j]

\* the first match of the format at the start of s, backtracking over the
\* alternatives cs of its first directive (MatchRest tries the rest of the
\* format after each of them)
RECURSIVE Match(_, _, _)
RECURSIVE MatchRest(_, _, _, _)
MatchRest(format, s, date, cs) ==
    [i \in 1..Len(cs) |->
        Match(format, SubSeq(s, cs[i].len + 1, Len(s)),
              IF cs[i].field = 0 THEN date
              ELSE [date EXCEPT ![cs[i].field] = cs[i].value])]

Match(format, s, date) ==
    IF format = <<>> THEN [ok |-> TRUE, rest |-> s, date |-> date]
    ELSE FirstMatch(MatchRest(Tail(format), s, date, Candidates(Head(format), s)))

IsLeap(year) == year % 4 = 0 /\ (year % 100 # 0 \/ year % 400 = 0)

DaysInMonth(year, month) ==
    IF month = 2 THEN (IF IsLeap(year) THEN 29 ELSE 28)
    ELSE IF month \in {4, 6, 9, 11} THEN 30 ELSE 31

\* no date: strptime raised ValueError
NoDate == <<>>

\* datetime.strptime(s, format).date(): the whole text must match and the
\* fields must form a date and time (%S matches 60 and 61, datetime rejects them)
DateOf(m) ==
    IF m.ok /\ m.rest = <<>> /\ m.date[1] >= 1
       /\ m.date[3] <= DaysInMonth(m.date[1], m.date[2])
       /\ m.date[4] <= 59
    THEN m.date ELSE NoDate

Strptime(s, format) == DateOf(Match(format, s, <<1900, 1, 1, 0>>))

\* n written with at least w digits
ZeroPad(n, w) == [i \in 1..(w - Len(ToDigits(n))) |-> "0"] \o ToDigits(n)

\* date.isoformat()
IsoFormat(date) ==
    ZeroPad(date[1], 4) \o <<"-">> \o ZeroPad(date[2], 2) \o <<"-">>
    \o ZeroPad(date[3], 2)

(***************************************************************************)
(* DataProcessor.parse_date, clean_date                                    *)
(***************************************************************************)
\* \w of the regular expression
IsWord(c) == IsLetter(c) \/ c \in DigitChars \/ c = "_"

\* the character classes \w, \s and \d
InClass(c, class) ==
    CASE class = "w" -> IsWord(c)
      [] class = "s" -> IsSpace(c)
      [] class = "d" -> c \in DigitChars

\* the length of the run of characters of a class at position i of s
RECURSIVE Run(_, _, _)
Run(s, i, class) ==
    IF i > Len(s) \/ ~InClass(s[i], class) THEN 0 ELSE 1 + Run(s, i + 1, class)

OrdinalSuffixes == {<<"s", "t">>, <<"n", "d">>, <<"r", "d">>, <<"t", "h">>}

\* (\w+)\s+(\d+)(?:st|nd|rd|th)\s+(\d{4}) matched at position i of s: the
\* positions where the groups start, or <<>> when it does not match there
OrdinalAt(s, i) ==
    LET w == Run(s, i, "w")
        b1 == Run(s, i + w, "s")
        d == Run(s, i + w + b1, "d")
        sfx == i + w + b1 + d
        b2 == Run(s, sfx + 2, "s")
        y == sfx + 2 + b2
    IN  IF /\ w > 0 /\ b1 > 0 /\ d > 0
           /\ sfx + 1 <= Len(s) /\ SubSeq(s, sfx, sfx + 1) \in OrdinalSuffixes
           /\ b2 > 0
           /\ y + 3 <= Len(s) /\ IsDigits(SubSeq(s, y, y + 3))
        THEN [month_name |-> SubSeq(s, i, i + w - 1),
              day |-> SubSeq(s, i + w + b1, sfx - 1),
              year |-> SubSeq(s, y, y + 3)]
        ELSE <<>>

\* re.search: the leftmost position where the pattern matches
OrdinalMatch(s) ==
    LET at == {i \in 1..Len(s) : OrdinalAt(s, i) # <<>>}
    IN  IF at = {} THEN <<>>
        ELSE OrdinalAt(s, CHOOSE i \in at : \A j \in at : i <= j)

\* the year range a date must lie in
MinYear == 1900
MaxYear == 2100

\* the ordinal branch: the groups re-parsed with "%B %d %Y"
Reparse(g) ==
    IF g = <<>> THEN NoDate
    ELSE Strptime(g.month_name \o <<" ">> \o g.day \o <<" ">> \o g.year,
                  <<"%B", " ", "%d", " ", "%Y">>)

ParseOrdinal(s) == Reparse(OrdinalMatch(s))

\* the format loop and the ordinal branch, given what strptime makes of the
\* text under each format and what the ordinal branch makes of it
FirstDate(dates, ordinal) ==
    LET hits == {i \in 1..Len(dates) :
                    dates[i] # NoDate /\ dates[i][1] \in MinYear..MaxYear}
    IN  IF hits # {}
        THEN IsoFormat(dates[CHOOSE i \in hits : \A j \in hits : i <= j])
        ELSE IF ordinal # NoDate THEN IsoFormat(ordinal)
        ELSE NoneValue

\* parse_date of a stripped, non-empty text
ParseStripped(s) ==
    FirstDate([i \in 1..Len(DATE_FORMATS) |-> Strptime(s, DATE_FORMATS[i])],
              ParseOrdinal(s))

\* parse_date(value): the ISO text, or NoneValue for None
ParseDate(value) ==
    IF Falsy(value) \/ Strip(value) = <<>> THEN NoneValue
    ELSE ParseStripped(Strip(value))

\* clean_date(value, row): what it returns or raises, and whether it logs
\* the "invalid date format" issue
DateOutcome(value, parsed) ==
    IF parsed = NoneValue /\ value = NoneValue
    THEN [outcome |-> Raised("AttributeError"), logs |-> FALSE]
    ELSE IF parsed = NoneValue /\ Strip(value) # <<>>
    THEN [outcome |-> Returned(<<>>), logs |-> TRUE]
    ELSE [outcome |-> Returned(IF parsed = NoneValue THEN <<>> ELSE parsed),
          logs |-> FALSE]

CleanDate(value) == DateOutcome(value, ParseDate(value))

\* the raw dates a run may meet
RawDates ==
    { <<"2", "0", "2", "4", "-", "0", "3", "-", "0", "1">>,
      <<"2", "0", "2", "4", "/", "0", "3", "/", "0", "1">>,
      <<"0", "3", "/", "1", "5", "/", "2", "0", "2", "4">>,
      <<"0", "3", "/", "1", "5", "/", "2", "4">>,
      <<"1", "5", "/", "0", "3", "/", "2", "0", "2", "4">>,
      <<"1", "5", "-", "0", "3", "-", "2", "0", "2", "4">>,
      <<"0", "3", "-", "1", "5", "-", "2", "0", "2", "4">>,
      <<"M", "a", "r", " ", "1", " ", "2", "0", "2", "4">>,
      <<"1", " ", "M", "a", "r", " ", "2", "0", "2", "4">>,
      <<"M", "a", "r", "c", "h", " ", "1", " ", "2", "0", "2", "4">>,
      <<"1", " ", "M", "a", "r", "c", "h", " ", "2", "0", "2", "4">>,
      <<"2", "0", "2", "4", "0", "3", "0", "1">>,
      <<"0", "1", "-", "M", "a", "r", "-", "2", "0", "2", "4">>,
      <<"0", "1", "-", "M", "a", "r", "-", "2", "4">>,
      <<"2", "0", "2", "4", "-", "0", "3", "-", "0", "1", " ", "1", "0", ":", "3", "0">>,
      <<"2", "0", "2", "4", "-", "0", "3", "-", "0", "1", " ", "1", "0", ":", "3", "0", ":", "5", "9">>,
      <<"M", "a", "r", "c", "h", " ", "1", "s", "t", " ", "2", "0", "2", "4">>,
      <<"M", "a", "r", "c", "h", " ", "2", "n", "d", " ", "2", "0", "2", "4">>,
      <<"M", "a", "r", "c", "h", " ", "3", "r", "d", " ", "2", "0", "2", "4">>,
      <<"M", "a", "r", "c", "h", " ", "4", "t", "h", " ", "2", "0", "2", "4">>,
      <<"M", "a", "r", " ", "1", "s", "t", " ", "2", "0", "2", "4">>,
      <<"2", "0", "2", "4", "-", "1", "3", "-", "0", "1">>,
      <<"M", "a", "r", "c", "h", " ", "1", "s", "t", " ", "1", "8", "5", "0">>,
      <<"M", "a", "r", "c", "h", " ", "1", "s", "t", " ", "2", "1", "5", "0">>,
      <<"M", "a", "r", "c", "h", " ", "1", "s", "t", " ", "1", "9", "0", "0">>,
      <<"M", "a", "r", "c", "h", " ", "1", "s", "t", " ", "2", "1", "0", "0">>,
      <<"1", "8", "5", "0", "-", "0", "3", "-", "0", "1">>,
      <<"1", "8", "9", "9", "-", "1", "2", "-", "3", "1">>,
      <<"1", "9", "0", "0", "-", "0", "1", "-", "0", "1">>,
      <<"2", "1", "0", "0", "-", "1", "2", "-", "3", "1">>,
      <<"2", "1", "0", "1", "-", "0", "1", "-", "0", "1">>,
      <<"2", "0", "2", "4", "-", "0", "2", "-", "2", "9">>,
      <<"2", "0", "2", "3", "-", "0", "2", "-", "2", "9">>,
      <<"F", "e", "b", "r", "u", "a", "r", "y", " ", "3", "0", "t", "h", " ", "2", "0", "2", "4">>,
      <<"M", "a", "y", " ", "2", "n", "d", " ", "2", "0", "2", "4">>,
      <<"S", "e", "p", "t", " ", "3", "r", "d", " ", "2", "0", "2", "4">>,
      <<"0", "3", "/", "1", "5", "/", "6", "9">>,
      <<"0", "3", "/", "1", "5", "/", "6", "8">>,
      <<" ", " ", "2", "0", "2", "4", "-", "0", "3", "-", "0", "1", " ", " ">>,
      <<"n", "o", "t", " ", "a", " ", "d", "a", "t", "e">>,
      <<"1", " ", "2", " ", "3">>,
      <<"2", "0", "2", "4", "-", "3", "-", "1">>,
      <<"x", "x", " ", "M", "a", "r", "c", "h", " ", "1", "s", "t", " ", "1", "8", "5", "0", " ", "y", "y">>,
      <<"m", "a", "r", "c", "h", " ", "2", "1", "s", "t", " ", "2", "0", "2", "4">>,
      <<"M", "A", "R", "C", "H", " ", "5", "T", "H", " ", "2", "0", "2", "4">>,
      <<"M", "a", "r", "c", "h", " ", "1", "s", "t", " ", "2", "0", "2", "4", "5">>,
      <<"4", "/", "5", "/", "2", "0", "2", "4">>,
      <<"3", "1", "/", "1", "2", "/", "2", "0", "2", "4">>,
      <<"1", "2", "/", "3", "1", "/", "2", "0", "2", "4">>,
      <<"0", "0", "0", "0", "-", "0", "1", "-", "0", "1">>,
      <<"M", "a", "r", "c", "h", " ", " ", "7", "t", "h", " ", " ", "2", "0", "2", "4">>,
      NoneValue, <<>>, <<" ">> }

(***************************************************************************)
(* DataProcessor.process_row: the moveIn and balance fields of one row, in *)
(* the order process_row cleans them.  An exception of a normalizer leaves *)
(* process_row, so the fields after it are never cleaned.                  *)
(***************************************************************************)
\* the raw rows a run may meet: every raw date beside a plain balance and
\* every raw balance beside a plain date (csv.DictReader gives None for a
\* field that a short row does not have)
RawRows ==
    {[moveIn |-> d, balance |-> <<"1", "0", "0", ".", "0", "0">>] : d \in RawDates}
    \cup {[moveIn |-> <<"2", "0", "2", "4", "-", "0", "1", "-", "1", "5">>,
           balance |-> b] : b \in RawBalances}

\* the row number process_row is given
RowNum == 1

\* "move_in_date": self.clean_date(row.get("moveIn", ""), row_num)
CleanDateCall ==
    /\ npc = "moveIn"
    /\ LET call == CleanDate(raw_row.moveIn)
       IN  /\ IF call.logs
              THEN LogIssue(RowNum, "move_in_date", raw_row.moveIn, "invalid date format")
              ELSE UNCHANGED <<issues, stats_issues>>
           /\ IF call.outcome.did = "returned"
              THEN /\ cleaned' = cleaned @@ ("move_in_date" :> call.outcome.value)
                   /\ npc' = "balance"
              ELSE /\ npc' = "raised"
                   /\ UNCHANGED cleaned
    /\ UNCHANGED <<raw_row, seen_ids, rows, ids>>
    /\ UNCHANGED otherThanRow

\* "balance_cents": self.clean_currency(row.get("balance", ""), row_num)
CleanCurrencyCall ==
    /\ npc = "balance"
    /\ LET call == CleanCurrency(raw_row.balance)
       IN  IF call.did = "returned"
           THEN /\ cleaned' = cleaned @@ ("balance_cents" :> call.value)
                /\ npc' = "returned"
           ELSE /\ npc' = "raised"
                /\ UNCHANGED cleaned
    /\ UNCHANGED raw_row
    /\ UNCHANGED <<idVars, otherThanRow>>

\* process_row is entered with a row
NzInit(row) ==
    /\ raw_row = row
    /\ npc = "moveIn"
    /\ cleaned = <<>>

NormalizeNext == CleanDateCall \/ CleanCurrencyCall

(***************************************************************************)
(* EnterpriseDataSecurity.mask_data.  A masked text is a sequence of       *)
(* strings followed by the leading hex digits of a digest; the digest is    *)
(* not computed, it is kept as the algorithm, the key and the message it is *)
(* taken over.                                                             *)
(***************************************************************************)
PIITypes == {"EMAIL", "PHONE", "NAME", "SSN"}

MaskingStrategies == {"PARTIAL", "HASH", "TOKENIZE", "REDACT", "PSEUDONYM"}

\* the keys an instance may be constructed with
Keys == {<<"k", "1">>, <<"k", "2">>}

NoDigest == [algorithm |-> "none", key |-> <<>>, message |-> <<>>, hexdigits |-> 0]

\* a masked text without a digest
Text(text) == [text |-> text, digest |-> NoDigest]

\* '*' * n
Stars(n) == [i \in 1..n |-> "*"]

\* value.split(): the runs of non-blank characters
RECURSIVE Split(_)
Split(s) ==
    LET t == LStrip(s)
        n == IF Contains(t, " ") THEN IndexOf(t, " ") - 1 ELSE Len(t)
    IN  IF t = <<>> THEN <<>>
        ELSE <<SubSeq(t, 1, n)>> \o Split(SubSeq(t, n + 1, Len(t)))

\* ' '.join(parts)
RECURSIVE Join(_)
Join(parts) ==
    IF parts = <<>> THEN <<>>
    ELSE IF Len(parts) = 1 THEN parts[1]
    ELSE parts[1] \o <<" ">> \o Join(Tail(parts))

\* _partial_mask: the default, first and last two characters kept
DefaultPartialMask(value) ==
    IF Len(value) > 4
    THEN SubSeq(value, 1, 2) \o Stars(Len(value) - 4)
         \o SubSeq(value, Len(value) - 1, Len(value))
    ELSE Stars(Len(value))

\* _partial_mask(value, pii_type)
PartialMask(value, pii_type) ==
    LET at == IndexOf(value, "@")
        local == SubSeq(value, 1, at - 1)
        domain == SubSeq(value, at + 1, Len(value))
        digits == StripNonDigits(value)
        parts == Split(value)
    IN  IF pii_type = "EMAIL" /\ at > 0
        THEN (IF Len(local) > 2
              THEN <<local[1]>> \o Stars(Len(local) - 2) \o <<local[Len(local)]>>
              ELSE Stars(Len(local)))
             \o <<"@">> \o domain
        ELSE IF pii_type = "PHONE" /\ Len(digits) >= 10
        THEN <<"(">> \o SubSeq(digits, 1, 3) \o <<")", " ", "*", "*", "*", "-", "*", "*">>
             \o SubSeq(digits, Len(digits) - 1, Len(digits))
        ELSE IF pii_type = "NAME" /\ Len(parts) >= 2
        THEN Join([i \in 1..Len(parts) |->
                     IF i = 1 THEN parts[1]
                     ELSE IF Len(parts[i]) > 1
                     THEN <<parts[i][1]>> \o Stars(Len(parts[i]) - 1)
                     ELSE <<"*">>])
        ELSE DefaultPartialMask(value)

\* _hash_value(value): "HASH_" and 12 hex digits of HMAC-SHA256(key, value)
HashValue(value) ==
    [text |-> <<"HASH_">>,
     digest |-> [algorithm |-> "hmac-sha256", key |-> encryption_key,
                 message |-> value, hexdigits |-> 12]]

\* a token that also depends on how many values were masked before
TokenizeCounting(value, pii_type) ==
    [text |-> <<"TOKEN_", pii_type, "_">>,
     digest |-> [algorithm |-> "sha256", key |-> <<>>,
                 message |-> value \o encryption_key \o ToDigits(mask_count),
                 hexdigits |-> 16]]

\* _tokenize_value(value, pii_type): "TOKEN_<type>_" and 16 hex digits of
\* SHA-256(value + key)
TokenizeValue(value, pii_type) ==
    [text |-> <<"TOKEN_", pii_type, "_">>,
     digest |-> [algorithm |-> "sha256", key |-> <<>>,
                 message |-> value \o encryption_key, hexdigits |-> 16]]

first_names == <<"Alex", "Jordan", "Taylor", "Casey", "Morgan", "Riley", "Avery", "Quinn">>
last_names == <<"Smith", "Johnson", "Williams", "Brown", "Jones", "Garcia", "Miller", "Davis">>

\* int(hashlib.md5(value.encode()).hexdigest(), 16), reduced modulo 64: MD5
\* is not computed, a fixed function of the characters stands in for it
RECURSIVE Md5Int(_)
Md5Int(value) ==
    IF value = <<>> THEN 7
    ELSE LET c == value[Len(value)]
             code == IF \E i \in 1..Len(LowerLetters) : LowerLetters[i] = c
                     THEN LetterIndex(LowerLetters, c)
                     ELSE IF \E i \in 1..Len(UpperLetters) : UpperLetters[i] = c
                     THEN 26 + LetterIndex(UpperLetters, c)
                     ELSE 53
         IN  (31 * Md5Int(Front(value)) + code) % 64

\* _generate_pseudonym(value, pii_type)
GeneratePseudonym(value, pii_type) ==
    IF pii_type = "NAME"
    THEN LET hash_val == Md5Int(value)
             first_idx == hash_val % Len(first_names)
             last_idx == (hash_val \div Len(first_names)) % Len(last_names)
         IN  Text(<<first_names[first_idx + 1], " ", last_names[last_idx + 1]>>)
    ELSE Text(<<"PSEUDO_", pii_type>>)

\* mask_data(value, strategy, pii_type)
MaskData(value, strategy, pii_type) ==
    IF Falsy(value) THEN Text(value)
    ELSE CASE strategy = "PARTIAL" -> Text(PartialMask(value, pii_type))
           [] strategy = "HASH" -> HashValue(value)
           [] strategy = "TOKENIZE" -> TokenizeValue(value, pii_type)
           [] strategy = "REDACT" -> Text(<<"[REDACTED_", pii_type, "]">>)
           [] strategy = "PSEUDONYM" -> GeneratePseudonym(value, pii_type)

\* the values a run may mask
MaskValues ==
    { <<"a", "n", "n", "@", "x", ".", "i", "o">>,
      <<"a", "l", "@", "x", ".", "i", "o">>,
      <<"(", "5", "5", "5", ")", " ", "1", "2", "3", "-", "4", "5", "6", "7">>,
      <<"J", "o", "h", "n", " ", "D", "o", "e">>,
      <<"a", "b", "c">>,
      <<>>,
      NoneValue }

\* no call yet
NoMask == [value |-> <<>>, strategy |-> "none", pii_type |-> "none", output |-> Text(<<>>)]

\* two calls were given the same value, strategy and PII type
SameInputs(a, b) ==
    a.value = b.value /\ a.strategy = b.strategy /\ a.pii_type = b.pii_type

\* one call of mask_data; any one call of the run is kept in mask_seen for
\* comparison with the calls after it
MaskDataCall ==
    /\ mask_count < MaxMaskCalls
    /\ \E value \in MaskValues, strategy \in MaskingStrategies, pii_type \in PIITypes :
          LET call == [value |-> value, strategy |-> strategy, pii_type |-> pii_type,
                       output |-> MaskData(value, strategy, pii_type)]
          IN  /\ mask_last' = call
              /\ \/ /\ mask_seen = NoMask
                    /\ mask_seen' = call
                    /\ UNCHANGED mask_between
                 \/ /\ mask_seen # NoMask
                    /\ mask_between' = (mask_between \/ ~SameInputs(call, mask_seen))
                    /\ UNCHANGED mask_seen
                 \/ /\ mask_seen = NoMask
                    /\ UNCHANGED <<mask_seen, mask_between>>
    /\ mask_count' = mask_count + 1
    /\ UNCHANGED encryption_key
    /\ UNCHANGED <<idVars, ehVars, bmVars, prVars, nzVars, mtVars, rcVars>>

\* EnterpriseDataSecurity.__init__(encryption_key)
MsInit(key) ==
    /\ encryption_key = key
    /\ mask_count = 0
    /\ mask_seen = NoMask
    /\ mask_between = FALSE
    /\ mask_last = NoMask

MaskNext == MaskDataCall

(***************************************************************************)
(* EnterpriseDataProcessor: process_file and _process_single_record, run   *)
(* with the configured defaults (one worker, one batch holding the file).  *)
(***************************************************************************)
\* what a record does to the try body of _process_single_record:
\*   clean   - validation finds no ERROR result and nothing raises
\*   invalid - validate_record yields ERROR results (missing id, bad balance)
\*   fault   - a call of the try body raises (e.g. the audit-file append of
\*             log_data_access fails with OSError)
RecordKinds == {"clean", "invalid", "fault"}

\* no entry in recovery_strategies for the error type
NoStrategy == [name |-> "", returns |-> "unregistered"]

\* a registered strategy: its __name__ and what a call of it does: return a
\* truthy value, return a falsy one (recover_currency_format_error's 0), raise
Strategies ==
    { NoStrategy,
      [name |-> "recover_record", returns |-> "value"],
      [name |-> "recover_currency_format_error", returns |-> "zero"],
      [name |-> "recover_failing", returns |-> "raises"] }

\* ErrorRecord(...) as log_error builds it
ErrorRecord(severity, message, record_id) ==
    [error_type |-> "PROCESSING_ERROR", severity |-> severity,
     record_id |-> record_id, error_message |-> message,
     retry_count |-> 0, resolved |-> FALSE, resolution_strategy |-> ""]

\* the ErrorRecord fields whose values are Enum members
EnumFields == {"error_type", "severity"}

\* _get_suggested_actions: remediation texts keyed by error type
SuggestedActions(error_type) ==
    CASE error_type = "DATA_VALIDATION" ->
             <<"Review data source for systematic issues",
               "Update validation rules if business requirements changed",
               "Consider data cleaning at source system">>
      [] error_type = "PROCESSING_ERROR" ->
             <<"Check for recent code changes",
               "Verify system resources (memory, disk space)",
               "Review transformation logic for edge cases">>
      [] error_type = "IO_ERROR" ->
             <<"Check file permissions and disk space",
               "Verify network connectivity for remote files",
               "Consider file corruption issues">>
      [] error_type = "SYSTEM_ERROR" ->
             <<"Check system health and resource usage",
               "Review recent infrastructure changes",
               "Consider scaling up resources">>
      [] OTHER -> <<"Manual investigation required">>

\* escalation_data of escalate_error; asdict keeps every field of the record
EscalationData(error_record) ==
    [error_summary |-> error_record,
     suggested_actions |-> SuggestedActions(error_record.error_type)]

\* json.dumps raises TypeError on a value holding an Enum member
JsonDumpsRaises(data) ==
    \E f \in DOMAIN data.error_summary : f \in EnumFields

\* the lines escalate_error leaves in escalated_errors.jsonl
EscalateError(file, error_record) ==
    IF JsonDumpsRaises(EscalationData(error_record))
    THEN file
    ELSE Append(file, EscalationData(error_record))

\* the try body raises: strict rejection of an invalid record, or a fault
BodyRaises(kind) == (kind = "invalid" /\ strict_mode) \/ kind = "fault"

\* the exception the try body raises
BodyException(kind) ==
    IF kind = "fault" THEN "fault" ELSE "Record failed strict validation"

\* quarantine_record is called by the strict rejection only
Quarantines(kind) == kind = "invalid" /\ strict_mode

\* attempt_recovery: the value it returns, "None" when there is none
RecoveryResult(strategy) ==
    CASE strategy.returns = "value" -> "recovered"
      [] strategy.returns = "zero" -> "0"
      [] OTHER -> "None"

\* attempt_recovery's writes to the error record it is given
AfterRecovery(error_record, strategy) ==
    CASE strategy.returns \in {"value", "zero"} ->
             [error_record EXCEPT !.resolved = TRUE,
                                  !.resolution_strategy = strategy.name]
      [] strategy.returns = "raises" ->
             [error_record EXCEPT !.retry_count = @ + 1]
      [] OTHER -> error_record

\* "if recovery_result:" - None and 0 are falsy
Truthy(value) == value \notin {"None", "0"}

\* the breaker bookkeeping of k log_error calls of severity HIGH or CRITICAL
BreakerAfterLogs(k) ==
    /\ pr_failures' = pr_failures + k
    /\ pr_breaker' = IF pr_failures + k >= BreakerThreshold THEN TRUE ELSE pr_breaker

\* one iteration of _process_single_batch's record loop: the call of
\* _process_single_record and the counting of its return or exception
ProcessSingleRecord ==
    /\ ppc = "records"
    /\ Len(record_outcome) < Len(input_records)
    /\ LET i == Len(record_outcome) + 1
           kind == input_records[i]
           high == ErrorRecord("HIGH", BodyException(kind), i)
           critical == ErrorRecord("CRITICAL", "Unrecoverable error", i)
           recovery_result == RecoveryResult(recovery_strategies)
       IN
       /\ quarantine_queue' =
             IF Quarantines(kind)
             THEN Append(quarantine_queue,
                         [reason |-> "Critical validation errors in strict mode",
                          timestamp |-> i, original_record |-> i])
             ELSE quarantine_queue
       /\ IF ~BodyRaises(kind)
          THEN /\ record_outcome' = Append(record_outcome,
                       [did |-> "returned", value |-> "cleaned", exception |-> ""])
               /\ batch_results' =
                       [batch_results EXCEPT !.results = Append(@, <<i, "cleaned">>),
                                             !.success_count = @ + 1]
               /\ UNCHANGED <<pr_error_records, pr_failures, pr_breaker,
                              escalated_errors>>
          ELSE IF Truthy(recovery_result)
          THEN /\ pr_error_records' = Append(pr_error_records,
                       AfterRecovery(high, recovery_strategies))
               /\ BreakerAfterLogs(1)
               /\ record_outcome' = Append(record_outcome,
                       [did |-> "returned", value |-> recovery_result,
                        exception |-> ""])
               /\ batch_results' =
                       [batch_results EXCEPT !.results = Append(@, <<i, recovery_result>>),
                                             !.success_count = @ + 1]
               /\ UNCHANGED escalated_errors
          ELSE /\ pr_error_records' = pr_error_records \o
                       <<AfterRecovery(high, recovery_strategies), critical>>
               /\ BreakerAfterLogs(2)
               /\ escalated_errors' = EscalateError(escalated_errors, critical)
               /\ record_outcome' = Append(record_outcome,
                       [did |-> "raised", value |-> "",
                        exception |->
                           IF JsonDumpsRaises(EscalationData(critical))
                           THEN "TypeError" ELSE BodyException(kind)])
               /\ batch_results' = [batch_results EXCEPT !.error_count = @ + 1]
    /\ UNCHANGED <<strict_mode, recovery_strategies, input_records, ppc,
                   clean_records, stats, output_files>>
    /\ UNCHANGED otherThanProcessor

\* process_in_batches returns and process_file updates its statistics
UpdateStatistics ==
    /\ ppc = "records"
    /\ Len(record_outcome) = Len(input_records)
    /\ stats' = [stats EXCEPT !.valid_records = batch_results.success_count,
                              !.invalid_records = batch_results.error_count]
    /\ ppc' = "outputs"
    /\ UNCHANGED <<strict_mode, recovery_strategies, input_records, pr_error_records,
                   pr_failures, pr_breaker, quarantine_queue, escalated_errors,
                   batch_results, clean_records, output_files, record_outcome>>
    /\ UNCHANGED otherThanProcessor

\* what a writer leaves on disk: no file at all for an empty record list
NotWritten == <<"not written">>
WriteOutput(records) == IF records = <<>> THEN NotWritten ELSE <<"file", records>>

\* _generate_outputs (_write_csv_output, _write_json_output) and the return
GenerateOutputs ==
    /\ ppc = "outputs"
    /\ output_files' = [csv |-> WriteOutput(clean_records),
                        json |-> WriteOutput(clean_records)]
    /\ ppc' = "done"
    /\ UNCHANGED <<strict_mode, recovery_strategies, input_records, pr_error_records,
                   pr_failures, pr_breaker, quarantine_queue, escalated_errors,
                   batch_results, clean_records, stats, record_outcome>>
    /\ UNCHANGED otherThanProcessor

\* the input files modelled: one to MaxInput records of any kinds
RECURSIVE InputsOfLen(_)
InputsOfLen(n) ==
    IF n = 0 THEN {<<>>}
    ELSE {Append(r, k) : r \in InputsOfLen(n - 1), k \in RecordKinds}

Inputs == UNION {InputsOfLen(n) : n \in 1..MaxInput}

\* EnterpriseDataProcessor.__init__ and process_file up to the batch call
PrInit(records, strict, strategy) ==
    /\ strict_mode = strict
    /\ recovery_strategies = strategy
    /\ input_records = records
    /\ ppc = "records"
    /\ pr_error_records = <<>>
    /\ pr_failures = 0
    /\ pr_breaker = FALSE
    /\ quarantine_queue = <<>>
    /\ escalated_errors = <<>>
    /\ batch_results = [results |-> <<>>, success_count |-> 0, error_count |-> 0]
    /\ clean_records = <<>>
    /\ stats = [total_records |-> Len(records), valid_records |-> 0,
                invalid_records |-> 0]
    /\ output_files = [csv |-> NotWritten, json |-> NotWritten]
    /\ record_outcome = <<>>

ProcessorNext == ProcessSingleRecord \/ UpdateStatistics \/ GenerateOutputs

(***************************************************************************)
(* EnterprisePerformanceMonitor: start_monitoring, stop_monitoring and the *)
(* background thread _monitor_resources                                    *)
(***************************************************************************)
\* stop_monitoring: self.monitoring_thread.join(timeout=5), in seconds
JoinTimeout == 5

\* start_monitoring's interval_seconds: shorter than the join's timeout, the
\* default, and longer than the timeout
Intervals == {1, 5, 10}

Threads == 1..MaxThreads

\* a Thread object that was not created yet
Unborn == [at |-> "unborn", interval |-> 0, asked |-> FALSE, samples |-> 0]

Created == {t \in Threads : sampler[t].at # "unborn"}

Alive(t) == sampler[t].at \in {"while", "sample", "sleep"}

\* start_monitoring(interval_seconds)
StartMonitoring(interval_seconds) ==
    /\ mon_pc = "idle"
    /\ mon_calls < MaxMonitorCalls
    /\ mon_calls' = mon_calls + 1
    /\ IF monitoring_active
         THEN UNCHANGED <<monitoring_active, monitoring_thread, sampler>>
         ELSE /\ Cardinality(Created) < MaxThreads
              /\ monitoring_active' = TRUE
              /\ monitoring_thread' = Cardinality(Created) + 1
              /\ sampler' = [sampler EXCEPT ![Cardinality(Created) + 1] =
                                [at |-> "while", interval |-> interval_seconds,
                                 asked |-> FALSE, samples |-> 0]]
    /\ UNCHANGED <<mon_pc, otherThanMonitoring>>

\* stop_monitoring up to the join: the flag is cleared, then the caller waits
\* for self.monitoring_thread when there is one
StopMonitoring ==
    /\ mon_pc = "idle"
    /\ mon_calls < MaxMonitorCalls
    /\ mon_calls' = mon_calls + 1
    /\ monitoring_active' = FALSE
    /\ sampler' = [t \in Threads |->
                     IF Alive(t) THEN [sampler[t] EXCEPT !.asked = TRUE] ELSE sampler[t]]
    /\ mon_pc' = IF monitoring_thread # 0 THEN "join" ELSE "idle"
    /\ UNCHANGED <<monitoring_thread, otherThanMonitoring>>

\* join(timeout=5) returns because the thread has ended
JoinReturns ==
    /\ mon_pc = "join"
    /\ ~Alive(monitoring_thread)
    /\ mon_pc' = "idle"
    /\ UNCHANGED <<monitoring_active, monitoring_thread, sampler, mon_calls,
                   otherThanMonitoring>>

\* join(timeout=5) returns because five seconds passed while the thread was
\* still inside time.sleep(interval)
JoinTimesOut ==
    /\ mon_pc = "join"
    /\ sampler[monitoring_thread].at = "sleep"
    /\ sampler[monitoring_thread].interval >= JoinTimeout
    /\ mon_pc' = "idle"
    /\ UNCHANGED <<monitoring_active, monitoring_thread, sampler, mon_calls,
                   otherThanMonitoring>>

\* _monitor_resources: the test of 'while self.monitoring_active'
MonitorWhile(t) ==
    /\ sampler[t].at = "while"
    /\ sampler' = [sampler EXCEPT ![t].at =
                      IF monitoring_active THEN "sample" ELSE "ended"]
    /\ UNCHANGED <<monitoring_active, monitoring_thread, mon_pc, mon_calls,
                   otherThanMonitoring>>

\* _monitor_resources: the metrics are read and the peaks updated, then the
\* thread enters time.sleep(interval)
MonitorSample(t) ==
    /\ sampler[t].at = "sample"
    /\ sampler' = [sampler EXCEPT ![t].at = "sleep",
                                  ![t].samples = IF @ < 2 THEN @ + 1 ELSE @]
    /\ UNCHANGED <<monitoring_active, monitoring_thread, mon_pc, mon_calls,
                   otherThanMonitoring>>

\* _monitor_resources: time.sleep(interval) returns
MonitorWake(t) ==
    /\ sampler[t].at = "sleep"
    /\ sampler' = [sampler EXCEPT ![t].at = "while"]
    /\ UNCHANGED <<monitoring_active, monitoring_thread, mon_pc, mon_calls,
                   otherThanMonitoring>>

MtInit ==
    /\ monitoring_active = FALSE
    /\ monitoring_thread = 0
    /\ sampler = [t \in Threads |-> Unborn]
    /\ mon_pc = "idle"
    /\ mon_calls = 0

MonitoringNext ==
    \/ \E interval_seconds \in Intervals : StartMonitoring(interval_seconds)
    \/ StopMonitoring
    \/ JoinReturns
    \/ JoinTimesOut
    \/ \E t \in Threads : MonitorWhile(t)
    \/ \E t \in Threads : MonitorSample(t)
    \/ \E t \in Threads : MonitorWake(t)

(***************************************************************************)
(* Regular expressions as the validator and the PII scanner use them: a    *)
(* pattern is a set of alternatives, an alternative a sequence of items,   *)
(* an item a word boundary or a run of characters of one class.            *)
(***************************************************************************)
LetterChars ==
    {LowerLetters[i] : i \in 1..Len(LowerLetters)} \cup
    {UpperLetters[i] : i \in 1..Len(UpperLetters)}

\* \w
WordChars == LetterChars \cup DigitChars \cup {"_"}

\* \b
WordBoundary == [kind |-> "boundary", cls |-> {}, lo |-> 0, hi |-> 0, more |-> FALSE]

\* [cls]{lo,hi}
Rep(cls, lo, hi) == [kind |-> "run", cls |-> cls, lo |-> lo, hi |-> hi, more |-> FALSE]

\* [cls]{lo,}
AtLeast(cls, lo) == [kind |-> "run", cls |-> cls, lo |-> lo, hi |-> lo, more |-> TRUE]

\* \d{n}
DigitRun(n) == Rep(DigitChars, n, n)

\* a literal character
Lit(c) == Rep({c}, 1, 1)

\* an optional character of a class
Opt(cls) == Rep(cls, 0, 1)

IsWordAt(text, pos) == pos >= 1 /\ pos <= Len(text) /\ text[pos] \in WordChars

\* \b holds between the characters at pos and pos + 1
AtBoundary(text, pos) == IsWordAt(text, pos) # IsWordAt(text, pos + 1)

\* how many characters a run may take at pos
RunLengths(item, text, pos) ==
    {n \in item.lo .. (IF item.more \/ item.hi > Len(text) - pos
                       THEN Len(text) - pos ELSE item.hi) :
        \A j \in 1..n : text[pos + j] \in item.cls}

\* the positions at which a match of items[i..], begun at pos, may end
RECURSIVE ReEnds(_, _, _, _)
ReEnds(items, i, text, pos) ==
    IF i > Len(items) THEN {pos}
    ELSE IF items[i].kind = "boundary"
    THEN (IF AtBoundary(text, pos) THEN ReEnds(items, i + 1, text, pos) ELSE {})
    ELSE UNION {ReEnds(items, i + 1, text, pos + n) : n \in RunLengths(items[i], text, pos)}

\* re.match(r'^...$', text)
ReMatch(pattern, text) ==
    \E items \in pattern : Len(text) \in ReEnds(items, 1, text, 0)

\* re.finditer(pattern, text) yields a match
ReSearch(pattern, text) ==
    \E items \in pattern, pos \in 0..Len(text) : ReEnds(items, 1, text, pos) # {}

(***************************************************************************)
(* EnterpriseDataValidator.  A record is its set of keys and the value of  *)
(* every key; a value is a masked text (Text(chars) before masking).  The  *)
(* fields the validator reads never hold a digest in the records used.     *)
(***************************************************************************)
Fields ==
    {"email", "phone", "record_id", "balance_cents", "balance", "name", "company",
     "_row_number", "_processed_at"}

\* the keys whose values are not strings
IntFields == {"_row_number"}

ValidationSeverity == {"ERROR", "WARNING", "INFO"}

\* ValidationResult(field, value, is_valid, severity, message)
ValidationResult(field, value, is_valid, severity, message) ==
    [field |-> field, value |-> value, is_valid |-> is_valid,
     severity |-> severity, message |-> message]

\* str.lower()


\* r'^[a-zA-Z0-9._%+-]+@[a-zA-Z0-9.-]+\.[a-zA-Z]{2,}$'
EmailFormat ==
    { <<AtLeast(LetterChars \cup DigitChars \cup {".", "_", "%", "+", "-"}, 1),
        Lit("@"),
        AtLeast(LetterChars \cup DigitChars \cup {".", "-"}, 1),
        Lit("."),
        AtLeast(LetterChars, 2)>> }

personal_domains ==
    { <<"g", "m", "a", "i", "l", ".", "c", "o", "m">>,
      <<"y", "a", "h", "o", "o", ".", "c", "o", "m">>,
      <<"h", "o", "t", "m", "a", "i", "l", ".", "c", "o", "m">>,
      <<"o", "u", "t", "l", "o", "o", "k", ".", "c", "o", "m">> }

\* email.split('@')[1].lower(), for an email that matched EmailFormat
DomainOf(email) == LowerStr(SubSeq(email, IndexOf(email, "@") + 1, Len(email)))

\* validate_email(email)
ValidateEmail(email) ==
    IF email = <<>> \/ Strip(email) = <<>>
    THEN ValidationResult("email", email, FALSE, "ERROR", "Email is required")
    ELSE IF ~ReMatch(EmailFormat, email)
    THEN ValidationResult("email", email, FALSE, "ERROR", "Invalid email format")
    ELSE IF DomainOf(email) \in personal_domains
    THEN ValidationResult("email", email, TRUE, "WARNING", "Personal email domain detected")
    ELSE ValidationResult("email", email, TRUE, "INFO", "Valid business email")

\* validate_phone: the four accepted formats, in the order they are tried
PhoneFormats ==
    { <<Lit("+"), Lit("1"), DigitRun(10)>>,
      <<DigitRun(10)>>,
      <<DigitRun(3), Lit("-"), DigitRun(3), Lit("-"), DigitRun(4)>>,
      <<Lit("("), DigitRun(3), Lit(")"), Opt({" "}), DigitRun(3), Lit("-"), DigitRun(4)>> }

\* validate_phone(phone): the formats are matched against phone itself, the
\* cleaned copy is not used
ValidatePhone(phone) ==
    IF phone = <<>> \/ Strip(phone) = <<>>
    THEN ValidationResult("phone", phone, FALSE, "ERROR", "Phone number is required")
    ELSE IF ReMatch(PhoneFormats, phone)
    THEN ValidationResult("phone", phone, TRUE, "INFO", "Valid phone format")
    ELSE ValidationResult("phone", phone, FALSE, "ERROR", "Invalid phone format")

\* the ids below this are taken for sequential test data
SequentialIdLimit == 1000

\* the shortest record id accepted
MinIdLength == 3

\* str_id.isdigit()
IsDigit(s) == s # <<>> /\ \A i \in 1..Len(s) : s[i] \in DigitChars

\* validate_record_id(record_id)
ValidateRecordId(record_id) ==
    IF Strip(record_id) = <<>>
    THEN ValidationResult("record_id", record_id, FALSE, "ERROR",
                          "Record ID is required for data integrity")
    ELSE IF Len(Strip(record_id)) < MinIdLength
    THEN ValidationResult("record_id", record_id, FALSE, "ERROR", "Record ID too short")
    ELSE IF IsDigit(Strip(record_id)) /\ ToInt(Strip(record_id)) < SequentialIdLimit
    THEN ValidationResult("record_id", record_id, TRUE, "WARNING",
                          "Sequential ID detected - verify this is production data")
    ELSE ValidationResult("record_id", record_id, TRUE, "INFO", "Valid record ID")

\* re.sub(r'[^\d.-]', '', amount.replace(',', ''))
CurrencyChars(amount) == SelectSeq(amount, LAMBDA c : c \in DigitChars \cup {".", "-"})

\* what float() accepts of a string of digits, '.' and '-'
FloatFormat ==
    { <<Opt({"-"}), AtLeast(DigitChars, 1), Opt({"."}), AtLeast(DigitChars, 0)>>,
      <<Opt({"-"}), Lit("."), AtLeast(DigitChars, 1)>> }

\* the digits before the decimal point
WholePart(c) ==
    StripNonDigits(IF Contains(c, ".") THEN SubSeq(c, 1, IndexOf(c, ".") - 1) ELSE c)

\* the digits after the decimal point
FractionPart(c) ==
    IF Contains(c, ".") THEN SubSeq(c, IndexOf(c, ".") + 1, Len(c)) ELSE <<>>

NonZero(d) == \E i \in 1..Len(d) : d[i] \in DigitChars \ {"0"}

\* balances above this are reported
HighBalance == 1000000

\* validate_currency(amount) for a string amount
ValidateCurrencyText(amount, c) ==
    IF ~ReMatch(FloatFormat, c)
    THEN ValidationResult("balance", amount, FALSE, "ERROR", "Invalid currency format")
    ELSE IF c[1] = "-" /\ NonZero(c)
    THEN ValidationResult("balance", amount, TRUE, "WARNING", "Negative balance detected")
    ELSE IF \/ ToInt(WholePart(c)) > HighBalance
            \/ ToInt(WholePart(c)) = HighBalance /\ NonZero(FractionPart(c))
    THEN ValidationResult("balance", amount, TRUE, "WARNING", "High balance amount detected")
    ELSE ValidationResult("balance", amount, TRUE, "INFO", "Valid balance amount")

ValidateCurrency(amount) == ValidateCurrencyText(amount, CurrencyChars(amount))

\* the characters of a field's value
Chars(record, field) == record.val[field].text

\* validate_record(record): the per-field validators for the keys the record
\* has, then the cross-field rule; self.validation_rules is not read
ValidateRecord(record) ==
    (IF "email" \in record.keys THEN <<ValidateEmail(Chars(record, "email"))>> ELSE <<>>)
    \o (IF "phone" \in record.keys THEN <<ValidatePhone(Chars(record, "phone"))>> ELSE <<>>)
    \o (IF "record_id" \in record.keys
        THEN <<ValidateRecordId(Chars(record, "record_id"))>> ELSE <<>>)
    \o (IF "balance_cents" \in record.keys
        THEN <<ValidateCurrency(Chars(record, "balance_cents"))>>
        ELSE IF "balance" \in record.keys
        THEN <<ValidateCurrency(Chars(record, "balance"))>> ELSE <<>>)
    \o (IF /\ "email" \in record.keys
           /\ "phone" \in record.keys
           /\ Chars(record, "email") = <<>>
           /\ Chars(record, "phone") = <<>>
        THEN <<ValidationResult("contact_info", <<"missing">>, FALSE, "ERROR",
                                "Either email or phone is required for contact")>>
        ELSE <<>>)

\* validation_rules: the rule of a field, NoRule where the schema has none
NoRule == [required |-> FALSE, min_length |-> 0, max_length |-> 0, has_rule |-> FALSE]

ValidationRule(required, min_length, max_length) ==
    [required |-> required, min_length |-> min_length, max_length |-> max_length,
     has_rule |-> TRUE]

\* no schema file: validation_rules stays {}
NoSchema == [f \in Fields |-> NoRule]

\* the schema create_validation_schema writes (max_length 0: no maximum)
SampleSchema ==
    [f \in Fields |->
        CASE f = "record_id" -> ValidationRule(TRUE, 1, 20)
          [] f = "email" -> ValidationRule(FALSE, 5, 100)
          [] f = "phone" -> ValidationRule(FALSE, 10, 20)
          [] f = "balance_cents" -> ValidationRule(TRUE, 0, 0)
          [] OTHER -> NoRule]

Schemas == {NoSchema, SampleSchema}

(***************************************************************************)
(* EnterpriseDataSecurity: detect_pii, scan_record, apply_data_protection  *)
(* and log_data_access.  Confidences are in hundredths.                    *)
(***************************************************************************)
\* [-.\s]
Separators == {"-", ".", " "}

\* \(?([0-9]{3})\)?[-.\s]?([0-9]{3})[-.\s]?([0-9]{4})\b
PhoneTail ==
    <<Opt({"("}), DigitRun(3), Opt({")"}), Opt(Separators), DigitRun(3), Opt(Separators),
      DigitRun(4), WordBoundary>>

\* _initialize_pii_patterns: the patterns in the order detect_pii tries them;
\* every pattern is matched with re.IGNORECASE
pii_patterns ==
    << [pii_type |-> "EMAIL", confidence |-> 95,
        pattern |-> { <<WordBoundary,
                        AtLeast(LetterChars \cup DigitChars \cup {".", "_", "%", "+", "-"}, 1),
                        Lit("@"),
                        AtLeast(LetterChars \cup DigitChars \cup {".", "-"}, 1),
                        Lit("."),
                        AtLeast(LetterChars \cup {"|"}, 2),
                        WordBoundary>> }],
       [pii_type |-> "PHONE", confidence |-> 90,
        pattern |-> { <<WordBoundary>> \o PhoneTail,
                      <<WordBoundary, Opt({"+"}), Lit("1"), Opt(Separators)>> \o PhoneTail }],
       [pii_type |-> "PHONE", confidence |-> 95,
        pattern |-> { <<WordBoundary, DigitRun(3), Lit("-"), DigitRun(3), Lit("-"), DigitRun(4),
                        WordBoundary>> }],
       [pii_type |-> "SSN", confidence |-> 98,
        pattern |-> { <<WordBoundary, DigitRun(3), Lit("-"), DigitRun(2), Lit("-"), DigitRun(4),
                        WordBoundary>> }],
       [pii_type |-> "SSN", confidence |-> 70,
        pattern |-> { <<WordBoundary, DigitRun(9), WordBoundary>> }],
       [pii_type |-> "CREDIT_CARD", confidence |-> 95,
        pattern |-> { <<WordBoundary, Lit("4"), DigitRun(12), WordBoundary>>,
                      <<WordBoundary, Lit("4"), DigitRun(15), WordBoundary>>,
                      <<WordBoundary, Lit("5"), Rep({"1", "2", "3", "4", "5"}, 1, 1),
                        DigitRun(14), WordBoundary>>,
                      <<WordBoundary, Lit("3"), Rep({"4", "7"}, 1, 1), DigitRun(13),
                        WordBoundary>>,
                      <<WordBoundary, Lit("3"), DigitRun(13), WordBoundary>>,
                      <<WordBoundary, Lit("6"), Lit("0"), Lit("1"), Lit("1"), DigitRun(12),
                        WordBoundary>>,
                      <<WordBoundary, Lit("6"), Lit("5"), DigitRun(14), WordBoundary>> }],
       [pii_type |-> "NAME", confidence |-> 60,
        pattern |-> { <<WordBoundary, Rep(LetterChars, 1, 1), AtLeast(LetterChars, 1),
                        Lit(" "), Rep(LetterChars, 1, 1), AtLeast(LetterChars, 1),
                        WordBoundary>> }] >>

\* 'word' in field_name.lower(), for the field names of Fields
FieldHas(field_name, word) ==
    \/ word = "email" /\ field_name = "email"
    \/ word = "phone" /\ field_name = "phone"
    \/ word = "name" /\ field_name = "name"

\* min(0.99, confidence + boost)
Boost(confidence, boost) ==
    IF confidence + boost > 99 THEN 99 ELSE confidence + boost

\* detect_pii: the confidence after the field name was taken into account
AdjustedConfidence(pii_type, confidence, field_name) ==
    IF pii_type = "EMAIL" /\ FieldHas(field_name, "email")
    THEN Boost(confidence, 15)
    ELSE IF pii_type = "PHONE" /\ (FieldHas(field_name, "phone") \/ FieldHas(field_name, "tel"))
    THEN Boost(confidence, 15)
    ELSE IF pii_type = "NAME" /\ (FieldHas(field_name, "name") \/ FieldHas(field_name, "client"))
    THEN Boost(confidence, 20)
    ELSE confidence

\* _suggest_masking_strategy(pii_type, confidence)
SuggestMaskingStrategy(pii_type, confidence) ==
    IF confidence < 70 THEN "PARTIAL"
    ELSE CASE pii_type = "EMAIL" -> "PARTIAL"
           [] pii_type = "PHONE" -> "PARTIAL"
           [] pii_type = "SSN" -> "HASH"
           [] pii_type = "CREDIT_CARD" -> "TOKENIZE"
           [] pii_type = "NAME" -> "PSEUDONYM"
           [] pii_type = "ADDRESS" -> "REDACT"
           [] pii_type = "DATE_OF_BIRTH" -> "HASH"
           [] OTHER -> "REDACT"

\* PIIDetection(...) for a pattern that matched
PIIDetection(field_name, info) ==
    [field_name |-> field_name, pii_type |-> info.pii_type,
     confidence |-> AdjustedConfidence(info.pii_type, info.confidence, field_name),
     suggested_masking |->
         SuggestMaskingStrategy(info.pii_type,
             AdjustedConfidence(info.pii_type, info.confidence, field_name))]

\* detect_pii(text, field_name): one detection for every pattern with a match,
\* in the order of the patterns (the matches of one pattern differ only in
\* pattern_matched, which nothing reads)
RECURSIVE DetectFrom(_, _, _)
DetectFrom(k, text, field_name) ==
    IF k > Len(pii_patterns) THEN <<>>
    ELSE (IF ReSearch(pii_patterns[k].pattern, text)
          THEN <<PIIDetection(field_name, pii_patterns[k])>> ELSE <<>>)
         \o DetectFrom(k + 1, text, field_name)

DetectPii(text, field_name) ==
    IF text = <<>> THEN <<>> ELSE DetectFrom(1, text, field_name)

\* scan_record(record): the detections of every key that has any
ScanRecord(record) ==
    [f \in Fields |->
        IF f \in record.keys /\ f \notin IntFields
        THEN DetectPii(record.val[f].text, f) ELSE <<>>]

\* list(pii_detections.keys())
DetectedFields(detections) == {f \in Fields : detections[f] # <<>>}

ProtectionLevels == {"low", "medium", "high"}

\* apply_data_protection: the confidence threshold of a protection level
ConfidenceThreshold(level) ==
    CASE level = "low" -> 50
      [] level = "medium" -> 70
      [] level = "high" -> 90
      [] OTHER -> 70

\* the detections of one field that reach the threshold
Qualifying(detections, threshold) ==
    SelectSeq(detections, LAMBDA d : d.confidence >= threshold)

\* apply_data_protection, one field: the value is masked once for every
\* qualifying detection, each time from the original value; the last one stays
ProtectField(value, qualifying) ==
    IF qualifying = <<>> THEN value
    ELSE MaskData(value.text, qualifying[Len(qualifying)].suggested_masking,
                  qualifying[Len(qualifying)].pii_type)

\* apply_data_protection(record, protection_level)
ApplyDataProtection(record, level) ==
    [keys |-> record.keys,
     val |-> [f \in Fields |->
                ProtectField(record.val[f],
                             Qualifying(ScanRecord(record)[f],
                                        ConfidenceThreshold(level)))]]

\* AuditLogEntry(...) as log_data_access builds it
AuditLogEntry(user_id, action, record_count, pii_fields, masking_applied) ==
    [user_id |-> user_id, action |-> action, data_type |-> "sensitive_customer_data",
     record_count |-> record_count, pii_fields_accessed |-> pii_fields,
     masking_applied |-> masking_applied]

(***************************************************************************)
(* EnterpriseDataProcessor._process_single_record, the try body step by    *)
(* step for one record with its field values (what the except branch does  *)
(* is ProcessSingleRecord above).                                          *)
(***************************************************************************)
\* a column the input file does not have
Missing == <<"(no column)">>

\* a record as _read_input_file yields it from a row of the input file
MakeRecord(row) ==
    [keys |-> {f \in DOMAIN row : row[f] # Missing} \cup {"_row_number"},
     val |-> [f \in Fields |->
                IF f \in DOMAIN row /\ row[f] # Missing THEN Text(row[f])
                ELSE IF f = "_row_number" THEN Text(<<"2">>)
                ELSE Text(<<>>)]]

\* the values a column of the input file may hold
ColumnValues ==
    [f \in {"email", "phone", "record_id", "balance_cents", "name", "company"} |->
        CASE f = "email" ->
                 { <<>>, <<" ">>,
                   <<"a", "n", "n", "@", "x", ".", "i", "o">>,
                   <<" ", "a", "n", "n", "@", "x", ".", "i", "o">>,
                   <<"a", "l", "@", "g", "m", "a", "i", "l", ".", "c", "o", "m">> }
          [] f = "phone" ->
                 { <<>>, <<"5", "5", "5", "-", "1", "2", "3", "-", "4", "5", "6", "7">> }
          [] f = "record_id" -> { <<"1", "0", "0">>, <<"A", "1", "2">> }
          [] f = "balance_cents" -> { <<"1", "0", "0", ".", "0", "0">> }
          [] f = "name" -> { <<"A", "l", " ", "R", "o", "e">> }
          [] f = "company" ->
                 { <<"A", "c", "m", "e", " ", "C", "o">>,
                   <<"1", "2", "3", "4", "5", "6", "7", "8", "9">> }]

\* a column's values, or no such column
Column(f) == ColumnValues[f] \cup {Missing}

\* the records of an input file: any set of columns, any of their values
Records ==
    { MakeRecord([email |-> e, phone |-> p, record_id |-> r, balance_cents |-> b,
                  name |-> n, company |-> c]) :
        e \in Column("email"), p \in Column("phone"), r \in Column("record_id"),
        b \in Column("balance_cents"), n \in Column("name"), c \in Column("company") }

\* _apply_data_transformations(record)
ApplyDataTransformations(record) ==
    [keys |-> (record.keys \ {"_row_number"}) \cup {"_processed_at"},
     val |-> [f \in Fields |->
                IF f = "_processed_at" THEN Text(<<"isoformat">>)
                ELSE IF f \in record.keys /\ f \notin IntFields
                THEN [record.val[f] EXCEPT !.text = Strip(@)]
                ELSE record.val[f]]]

\* [r for r in results if r.severity.value == severity]
WithSeverity(results, severity) == SelectSeq(results, LAMBDA r : r.severity = severity)

\* the entries appended to self.validation_issues
Issues(results) ==
    [i \in 1..Len(results) |->
        [field |-> results[i].field, issue |-> results[i].message,
         severity |-> results[i].severity]]

\* validate_record on the record as read, and the strict-mode test
RcValidate ==
    /\ rc_pc = "validate"
    /\ validation_results' = ValidateRecord(rc_record)
    /\ rc_pc' = IF WithSeverity(ValidateRecord(rc_record), "ERROR") # <<>> /\ rc_strict_mode
                THEN "reject" ELSE "scan"
    /\ rc_steps' = Append(rc_steps, "validate")
    /\ UNCHANGED <<rc_record, rc_original, rc_strict_mode, protection_level,
                   validation_rules, pii_detections, audit_log, cleaned_record,
                   final_validation, validation_issues, rc_quarantined,
                   otherThanRecord>>

\* strict mode: the ERROR results are recorded, the record is quarantined and
\* an exception raised
RcReject ==
    /\ rc_pc = "reject"
    /\ validation_issues' = validation_issues \o Issues(WithSeverity(validation_results, "ERROR"))
    /\ rc_quarantined' = TRUE
    /\ rc_pc' = "raised"
    /\ rc_steps' = Append(rc_steps, "reject")
    /\ UNCHANGED <<rc_record, rc_original, rc_strict_mode, protection_level,
                   validation_rules, validation_results, pii_detections, audit_log,
                   cleaned_record, final_validation,
                   otherThanRecord>>

\* scan_record(record) and the test 'if pii_detections'
RcScan ==
    /\ rc_pc = "scan"
    /\ pii_detections' = ScanRecord(rc_record)
    /\ rc_pc' = IF DetectedFields(ScanRecord(rc_record)) # {} THEN "protect" ELSE "transform"
    /\ rc_steps' = Append(rc_steps, "scan")
    /\ UNCHANGED <<rc_record, rc_original, rc_strict_mode, protection_level,
                   validation_rules, validation_results, audit_log, cleaned_record,
                   final_validation, validation_issues, rc_quarantined,
                   otherThanRecord>>

\* record = apply_data_protection(record, protection_level)
RcProtect ==
    /\ rc_pc = "protect"
    /\ rc_record' = ApplyDataProtection(rc_record, protection_level)
    /\ rc_pc' = "audit"
    /\ rc_steps' = Append(rc_steps, "mask")
    /\ UNCHANGED <<rc_original, rc_strict_mode, protection_level, validation_rules,
                   validation_results, pii_detections, audit_log, cleaned_record,
                   final_validation, validation_issues, rc_quarantined,
                   otherThanRecord>>

\* log_data_access(user_id="data_processor", action="process_record",
\* record_count=1, pii_fields=list(pii_detections.keys()), masking_applied=True)
RcAudit ==
    /\ rc_pc = "audit"
    /\ audit_log' = Append(audit_log,
                           AuditLogEntry("data_processor", "process_record", 1,
                                         DetectedFields(pii_detections), TRUE))
    /\ rc_pc' = "transform"
    /\ rc_steps' = Append(rc_steps, "audit")
    /\ UNCHANGED <<rc_record, rc_original, rc_strict_mode, protection_level,
                   validation_rules, validation_results, pii_detections, cleaned_record,
                   final_validation, validation_issues, rc_quarantined,
                   otherThanRecord>>

\* cleaned_record = _apply_data_transformations(record)
RcTransform ==
    /\ rc_pc = "transform"
    /\ cleaned_record' = ApplyDataTransformations(rc_record)
    /\ rc_pc' = "final"
    /\ rc_steps' = Append(rc_steps, "normalize")
    /\ UNCHANGED <<rc_record, rc_original, rc_strict_mode, protection_level,
                   validation_rules, validation_results, pii_detections, audit_log,
                   final_validation, validation_issues, rc_quarantined,
                   otherThanRecord>>

\* the final validate_record on the cleaned record; its WARNING results are
\* recorded and the cleaned record is returned
RcFinalValidation ==
    /\ rc_pc = "final"
    /\ final_validation' = ValidateRecord(cleaned_record)
    /\ validation_issues' =
           validation_issues \o Issues(WithSeverity(ValidateRecord(cleaned_record), "WARNING"))
    /\ rc_pc' = "returned"
    /\ rc_steps' = Append(rc_steps, "validate")
    /\ UNCHANGED <<rc_record, rc_original, rc_strict_mode, protection_level,
                   validation_rules, validation_results, pii_detections, audit_log,
                   cleaned_record, rc_quarantined,
                   otherThanRecord>>

\* the state in which _process_single_record(record) is entered
RcInit(record, strict, level, schema) ==
    /\ rc_record = record
    /\ rc_original = record
    /\ rc_strict_mode = strict
    /\ protection_level = level
    /\ validation_rules = schema
    /\ rc_pc = "validate"
    /\ validation_results = <<>>
    /\ pii_detections = [f \in Fields |-> <<>>]
    /\ audit_log = <<>>
    /\ cleaned_record = record
    /\ final_validation = <<>>
    /\ validation_issues = <<>>
    /\ rc_quarantined = FALSE
    /\ rc_steps = <<>>

RecordNext ==
    \/ RcValidate
    \/ RcReject
    \/ RcScan
    \/ RcProtect
    \/ RcAudit
    \/ RcTransform
    \/ RcFinalValidation

(***************************************************************************)
(* Specifications                                                          *)
(***************************************************************************)
\* the batch runner as it stands while the other components are exercised:
\* one record, one worker (the configured default), threshold 5 percent
BmIdle == BmInit(1, 1, 1, 5)

\* the processor before a file is given to it: defaults, no strategy registered
PrIdle == PrInit(<<"clean">>, FALSE, NoStrategy)

\* process_row before a file is read: a well-formed row
NzIdle == NzInit([moveIn |-> <<"2", "0", "2", "4", "-", "0", "1", "-", "1", "5">>,
                  balance |-> <<"1", "0", "0", ".", "0", "0">>])

\* the security instance before it is used
MsIdle == MsInit(<<"k", "1">>)

\* no call of _process_single_record under way: its locals do not exist, the
\* configuration is the default, no schema was loaded, nothing was audited
RcIdle ==
    /\ rc_record = <<>>
    /\ rc_original = <<>>
    /\ rc_strict_mode = FALSE
    /\ protection_level = "medium"
    /\ validation_rules = <<>>
    /\ rc_pc = "idle"
    /\ validation_results = <<>>
    /\ pii_detections = <<>>
    /\ audit_log = <<>>
    /\ cleaned_record = <<>>
    /\ final_validation = <<>>
    /\ validation_issues = <<>>
    /\ rc_quarantined = FALSE
    /\ rc_steps = <<>>

Init == IdInit /\ EhInit(DefaultMaxRetries) /\ BmIdle /\ PrIdle /\ NzIdle /\ MsIdle /\ MtInit /\ RcIdle

HandlerInit == IdInit /\ BmIdle /\ PrIdle /\ NzIdle /\ MsIdle /\ MtInit /\ RcIdle /\ \E m \in 0..MaxRetries : EhInit(m)

ProcessorInit ==
    /\ IdInit
    /\ RcIdle
    /\ MtInit
    /\ NzIdle
    /\ MsIdle
    /\ EhInit(DefaultMaxRetries)
    /\ BmIdle
    /\ \E records \in Inputs, strict \in BOOLEAN, strategy \in Strategies :
          PrInit(records, strict, strategy)

BatchInit ==
    /\ IdInit
    /\ RcIdle
    /\ MtInit
    /\ NzIdle
    /\ MsIdle
    /\ PrIdle
    /\ EhInit(DefaultMaxRetries)
    /\ \E layout \in Layouts, workers \in 1..MaxWorkers,
          threshold \in ThresholdPercents :
             BmInit(layout[1], layout[2], workers, threshold)

IdSpec == Init /\ [][IdNext]_vars

HandlerSpec == HandlerInit /\ [][HandlerNext]_vars

BatchSpec == BatchInit /\ [][BatchNext]_vars

ProcessorSpec == ProcessorInit /\ [][ProcessorNext]_vars

NormalizeInit ==
    /\ IdInit
    /\ RcIdle
    /\ MtInit
    /\ EhInit(DefaultMaxRetries)
    /\ BmIdle
    /\ PrIdle
    /\ MsIdle
    /\ \E row \in RawRows : NzInit(row)

NormalizeSpec == NormalizeInit /\ [][NormalizeNext]_vars

MaskInit ==
    /\ IdInit
    /\ RcIdle
    /\ MtInit
    /\ EhInit(DefaultMaxRetries)
    /\ BmIdle
    /\ PrIdle
    /\ NzIdle
    /\ \E key \in Keys : MsInit(key)

MaskSpec == MaskInit /\ [][MaskNext]_vars

MonitoringInit ==
    /\ IdInit
    /\ RcIdle
    /\ EhInit(DefaultMaxRetries)
    /\ BmIdle
    /\ PrIdle
    /\ NzIdle
    /\ MsIdle
    /\ MtInit

MonitoringSpec == MonitoringInit /\ [][MonitoringNext]_vars

RecordInit ==
    /\ IdInit
    /\ EhInit(DefaultMaxRetries)
    /\ BmIdle
    /\ PrIdle
    /\ NzIdle
    /\ MsIdle
    /\ MtInit
    /\ \E record \in Records, strict \in BOOLEAN, level \in ProtectionLevels,
          schema \in Schemas :
             RcInit(record, strict, level, schema)

RecordSpec == RecordInit /\ [][RecordNext]_vars

(***************************************************************************)
(* Claims about clean_id                                                   *)
(***************************************************************************)

\* C1: within one run, all non-empty identifiers returned by clean_id so far
\* are pairwise distinct.
C1_ReturnedIdsDistinct ==
    \A i, j \in 1..Len(ids) :
        (i # j /\ ids[i] # None /\ ids[j] # None) => ids[i] # ids[j]

\* the number spelled by the digits of a raw value, read left to right
RECURSIVE NumberOf(_, _)
NumberOf(v, acc) ==
    IF v = <<>> THEN acc
    ELSE NumberOf(Tail(v), IF Head(v) \in DigitChars
                           THEN 10 * acc + DigitVal(Head(v)) ELSE acc)

HasDigit(v) == \E i \in 1..Len(v) : v[i] \in DigitChars

C2_Step ==
    Len(rows') = Len(rows) + 1 =>
        LET v   == rows'[Len(rows')]
            row == Len(rows')
            r   == ids'[Len(ids')]
            n   == NumberOf(v, 0)
        IN  /\ Len(ids') = Len(rows')
            /\ IF ~HasDigit(v)
               THEN r = None /\ issues' = issues /\ seen_ids' = seen_ids
               ELSE IF n \in seen_ids
               THEN /\ r = Some(n + 10000)
                    /\ issues' = Append(issues, <<row, "record_id", v, "duplicate ID">>)
                    /\ seen_ids' = seen_ids \cup {n + 10000}
               ELSE /\ r = Some(n)
                    /\ issues' = issues
                    /\ seen_ids' = seen_ids \cup {n}

C2_Scenario ==
    rows = << <<"A", "1", "0", "0", "3">>, <<"1", "0", "0", "3", "X">> >> =>
        /\ ids = <<Some(1003), Some(11003)>>
        /\ issues = << <<2, "record_id", <<"1", "0", "0", "3", "X">>, "duplicate ID">> >>

\* C2: clean_id keeps only the digits of the raw value (None when none
\* remain); a number already seen is returned plus 10000 with exactly one
\* 'duplicate ID' issue carrying the row and the raw value, and the remapped
\* value joins the seen set; an unseen number is returned unchanged with no
\* issue.  'A1003' then '1003X' gives 1003, then 11003 and one issue.
C2_CleanIdContract == [](C2_Scenario) /\ [][C2_Step]_vars

C2_Witness ==
    /\ rows = << <<"A", "1", "0", "0", "3">>, <<"1", "0", "0", "3", "X">> >>
    /\ ids[2] = Some(11003)
    /\ 11003 \in seen_ids
    /\ Len(issues) = 1

(***************************************************************************)
(* Claims about the circuit breaker and retry_with_backoff                 *)
(***************************************************************************)

\* CRITICAL/HIGH records logged after position `from` of a record sequence
RECURSIVE HighSince(_, _)
HighSince(recs, from) ==
    IF Len(recs) <= from THEN 0
    ELSE HighSince(SubSeq(recs, 1, Len(recs) - 1), from)
         + (IF recs[Len(recs)].severity \in {"CRITICAL", "HIGH"} THEN 1 ELSE 0)

\* five CRITICAL/HIGH failures in a row keep the breaker open; with fewer it is
\* closed unless it opened earlier
C3_FiveInARowIsOpen ==
    HighSince(error_records, lastSuccessAt) >= 5 => circuit_breaker_state

\* the breaker opens only on the step that logs the fifth CRITICAL/HIGH
\* failure since the last successful operation
C3_OpensOnlyOnFifth ==
    (~circuit_breaker_state /\ circuit_breaker_state') =>
        /\ Len(error_records') = Len(error_records) + 1
        /\ error_records'[Len(error_records')].severity \in {"CRITICAL", "HIGH"}
        /\ HighSince(error_records', lastSuccessAt') = 5

\* C3: the breaker becomes open exactly when five CRITICAL/HIGH failures have
\* been logged with no successful operation in between; a success resets the
\* count; fewer than five never open it; MEDIUM/LOW never contribute.
C3_BreakerOpensAtFive ==
    /\ [](C3_FiveInARowIsOpen)
    /\ [](consecutive_failures = 0 \/ consecutive_failures
                                       = HighSince(error_records, lastSuccessAt))
    /\ [][C3_OpensOnlyOnFifth]_vars

\* the breaker has just opened on the fifth CRITICAL/HIGH failure in a row
C3_Witness ==
    /\ circuit_breaker_state
    /\ Len(error_records) = 5
    /\ HighSince(error_records, 0) = 5
    /\ consecutive_failures = 5

\* a call entered while the breaker is open raises at once
C4_FailFast ==
    (circuit_breaker_state /\ rpc \in {"idle", "returned", "raised"}
       /\ <<rpc, outcome, op_calls, sleeps, attempt>>' # <<rpc, outcome, op_calls, sleeps, attempt>>) =>
        /\ rpc' = "raised"
        /\ outcome' = CircuitOpen
        /\ op_calls' = 0
        /\ sleeps' = 0

C5_Bounded == op_calls <= max_retries + 1 /\ sleeps <= max_retries

C5_Returned ==
    rpc = "returned" =>
        /\ op_fails = op_calls - 1
        /\ outcome = OpResult(op_calls - 1)
        /\ sleeps = op_calls - 1

C5_Raised ==
    (rpc = "raised" /\ outcome # CircuitOpen) =>
        /\ op_calls = max_retries + 1
        /\ op_fails = max_retries + 1
        /\ sleeps = max_retries
        /\ outcome = OpException(max_retries)

C5_Sleeping ==
    rpc = "sleeping" =>
        /\ op_fails = attempt + 1
        /\ sleeps = attempt + 1
        /\ attempt < max_retries
        /\ delay >= 10 * Pow(2, attempt)
        /\ delay < 10 * Pow(2, attempt) + 10

\* once a call has ended, the operation is not invoked again by that call
C5_NoFurtherAttempt ==
    rpc \in {"returned", "raised"} => (op_calls' = op_calls \/ op_calls' = 0)

\* C5: with the breaker closed, retry_with_backoff invokes the operation at
\* most max_retries + 1 times; it returns the first successful attempt's
\* result and stops; when every attempt fails it raises the last attempt's
\* exception after exactly max_retries + 1 attempts and max_retries waits,
\* each wait being multiplier^attempt plus a jitter in [0, 1).
C5_RetryBudget ==
    /\ [](C5_Bounded /\ C5_Returned /\ C5_Raised /\ C5_Sleeping)
    /\ [][C5_NoFurtherAttempt]_vars

\* every attempt of a handler with two retries failed and the last exception surfaced
C5_Witness ==
    /\ max_retries = 2
    /\ rpc = "raised"
    /\ outcome = OpException(2)
    /\ op_calls = 3
    /\ sleeps = 2

(***************************************************************************)
(* Claims about process_in_batches                                         *)
(***************************************************************************)

\* counts of the batch results collected so far
RECURSIVE CollectedSum(_, _)
CollectedSum(k, field) ==
    IF k = 0 THEN 0
    ELSE CollectedSum(k - 1, field)
         + (IF collected[k] = "result"
            THEN (IF field = "success" THEN fresult[k].success_count
                                       ELSE fresult[k].error_count)
            ELSE 0)

\* on the step that collects a batch result the threshold fires exactly when the
\* running error rate exceeds it; it then cancels every pending batch, leaves
\* the running ones running and ends the collection
C6_BreachStep ==
    (Len(collected') = Len(collected) + 1 /\ collected'[Len(collected')] = "result") =>
        LET over == total_errors' * 100 > error_threshold * (total_success' + total_errors')
        IN  /\ total_success' + total_errors' > 0
            /\ breached' = over
            /\ over => /\ mpc' = "shutdown"
                       /\ \A b \in Batches :
                             /\ fstate[b] = "pending" => fstate'[b] = "cancelled"
                             /\ fstate[b] = "running" => fstate'[b] = "running"

\* a cancelled batch is never executed; after the breach no batch starts and a
\* running batch runs on until it has returned or raised
C6_NoLaterStart ==
    \A b \in Batches :
        /\ fstate[b] = "cancelled" => fstate'[b] = "cancelled"
        /\ (breached /\ fstate[b] # "running") => fstate'[b] # "running"
        /\ (breached /\ fstate[b] = "running") =>
               fstate'[b] \in {"running", "returned", "raised"}

C6_CancelledNeverRan ==
    \A b \in Batches : fstate[b] = "cancelled" =>
        /\ status_obj[b] = NoStatus
        /\ \A w \in 1..max_workers : worker[w].batch # b

C6_ReturnsPartialCounts ==
    (mpc = "done" /\ breached) =>
        /\ \A b \in Batches : fstate[b] \in {"returned", "raised", "cancelled"}
        /\ result.total_records = total_records
        /\ result.success_count = CollectedSum(Len(collected), "success")
        /\ result.error_count >= CollectedSum(Len(collected), "errors")
        /\ collected[Len(collected)] = "result"

C7_AllRecordsAccounted ==
    mpc = "done" =>
        /\ result.total_records = total_records
        /\ result.success_count + result.error_count >= total_records

C8_Step ==
    (Len(collected') = Len(collected) + 1 /\ collected'[Len(collected')] = "exception") =>
        /\ total_errors' = total_errors + BatchLen(cpos - 1)
        /\ total_success' = total_success

\* C8: when waiting for a batch's result raises or times out, error_count
\* grows by exactly the number of records of that batch and success_count is
\* unchanged.
C8_FailedBatchCountsItsRecords == [][C8_Step]_vars

\* C9: after any interleaving of concurrently processed batches the shared
\* counter total_records_processed equals the sum of the increments applied.
C9_NoLostUpdate ==
    mpc = "done" => total_records_processed = applied_increments

\* C10: every executed batch that completed has exactly one BatchStatus in
\* batch_history, finalized with its own id, record count, success count and
\* error count.
C10_OneStatusPerBatch ==
    \A b \in Batches : fstate[b] = "returned" =>
        /\ Cardinality({i \in 1..Len(batch_history) : batch_history[i] = b}) = 1
        /\ status_obj[b].batch_id = b
        /\ status_obj[b].records_count = BatchLen(b - 1)
        /\ status_obj[b].success_count = fresult[b].success_count
        /\ status_obj[b].error_count = fresult[b].error_count

(***************************************************************************)
(* EnterpriseDataProcessor claims                                          *)
(***************************************************************************)
\* C11: when the try body of _process_single_record raises: if the recovery
\* strategy returns, the ErrorRecord is marked resolved with the strategy's
\* name and the record returns the recovered value and is counted as a
\* success; otherwise one entry with the remediation suggestions of the error
\* kind is written to the escalated sink, the original exception is re-raised
\* and the record is counted as an error.
C11_Step ==
    (record_outcome' # record_outcome
       /\ BodyRaises(input_records[Len(record_outcome) + 1]))
    =>
    LET i == Len(record_outcome) + 1
        out == record_outcome'[i]
        logged == pr_error_records'[Len(pr_error_records) + 1]
    IN  IF recovery_strategies.returns \in {"value", "zero"}
        THEN /\ logged.resolved
             /\ logged.resolution_strategy = recovery_strategies.name
             /\ out.did = "returned"
             /\ out.value = RecoveryResult(recovery_strategies)
             /\ batch_results'.success_count = batch_results.success_count + 1
             /\ batch_results'.error_count = batch_results.error_count
        ELSE /\ Len(escalated_errors') = Len(escalated_errors) + 1
             /\ escalated_errors'[Len(escalated_errors')].suggested_actions
                    = SuggestedActions("PROCESSING_ERROR")
             /\ out.did = "raised"
             /\ out.exception = BodyException(input_records[i])
             /\ batch_results'.error_count = batch_results.error_count + 1
             /\ batch_results'.success_count = batch_results.success_count

C11_RecoveryOrEscalation == [][C11_Step]_vars

\* C12: every record whose processing raised to the batch loop is in the
\* quarantine queue exactly once, has no entry in the batch results and is
\* counted once in the error count, whatever made it fail.
C12_FailedRecordsQuarantined ==
    /\ \A i \in 1..Len(record_outcome) :
          record_outcome[i].did = "raised" =>
             /\ Cardinality({q \in 1..Len(quarantine_queue) :
                                quarantine_queue[q].original_record = i}) = 1
             /\ \A r \in 1..Len(batch_results.results) :
                   batch_results.results[r][1] # i
    /\ batch_results.error_count =
          Cardinality({i \in 1..Len(record_outcome) : record_outcome[i].did = "raised"})

\* C13: once process_file has returned, clean_records and the CSV and JSON
\* files hold exactly one cleaned record per record that was processed
\* successfully and none for a record that failed.
C13_CleanRecordsAreTheSuccesses ==
    ppc = "done" =>
       /\ \A i \in 1..Len(input_records) :
             Cardinality({k \in 1..Len(clean_records) : clean_records[k][1] = i})
                = IF record_outcome[i].did = "returned" THEN 1 ELSE 0
       /\ \A f \in {output_files.csv, output_files.json} :
             (IF f[1] = "file" THEN f[2] ELSE <<>>) = clean_records

(***************************************************************************)
(* Claims about the field normalizers                                      *)
(***************************************************************************)
\* C14: no normalizer raises, whatever the raw value (malformed text,
\* non-finite numeric text, a field missing from a short row), so process_row
\* always returns.
C14_NormalizersNeverRaise == npc # "raised"

\* text is YYYY-MM-DD naming a day of the calendar
IsIsoDate(text) ==
    /\ Len(text) = 10
    /\ text[5] = "-" /\ text[8] = "-"
    /\ IsDigits(SubSeq(text, 1, 4)) /\ IsDigits(SubSeq(text, 6, 7))
    /\ IsDigits(SubSeq(text, 9, 10))
    /\ ToInt(SubSeq(text, 6, 7)) \in 1..12
    /\ ToInt(SubSeq(text, 9, 10)) \in
          1..DaysInMonth(ToInt(SubSeq(text, 1, 4)), ToInt(SubSeq(text, 6, 7)))

\* the issues clean_date logged for the row
DateIssues ==
    {i \in 1..Len(issues) : issues[i][2] = "move_in_date"
                            /\ issues[i][4] = "invalid date format"}

\* clean_date has returned for a raw value that is text
DateCleaned == "move_in_date" \in DOMAIN cleaned /\ raw_row.moveIn # NoneValue

\* C15: clean_date returns the empty string or a valid ISO date with its year
\* in 1900..2100; a non-blank value that yields no date logs exactly one
\* "invalid date format" issue, and a blank value logs none.
C15_DateIsEmptyOrIsoInRange ==
    DateCleaned =>
       LET date == cleaned["move_in_date"]
       IN  /\ \/ date = <<>>
              \/ /\ IsIsoDate(date)
                 /\ ToInt(SubSeq(date, 1, 4)) \in MinYear..MaxYear
           /\ (date = <<>> /\ Strip(raw_row.moveIn) # <<>>)
                 => Cardinality(DateIssues) = 1 /\ Len(issues) = 1
           /\ Strip(raw_row.moveIn) = <<>> => date = <<>> /\ issues = <<>>

\* C16: "Mar 1st 2024" is cleaned to "2024-03-01" without an issue, and
\* "2024-13-01" to the empty string with exactly one "invalid date format"
\* issue.
C16_OrdinalAbbreviatedMonth ==
    DateCleaned =>
       /\ raw_row.moveIn = <<"M", "a", "r", " ", "1", "s", "t", " ", "2", "0", "2", "4">>
             => /\ cleaned["move_in_date"]
                     = <<"2", "0", "2", "4", "-", "0", "3", "-", "0", "1">>
                /\ issues = <<>>
       /\ raw_row.moveIn = <<"2", "0", "2", "4", "-", "1", "3", "-", "0", "1">>
             => /\ cleaned["move_in_date"] = <<>>
                /\ Cardinality(DateIssues) = 1 /\ Len(issues) = 1

\* clean_currency has returned for the row's balance
BalanceCleaned == "balance_cents" \in DOMAIN cleaned

\* C17: in a balance with "," and no ".", the "," is the decimal separator
\* ("1,23" is 123 minor units); in a balance with both, the "," separates
\* thousands ("$1,234.56" is 123456 minor units).
C17_SeparatorAmbiguity ==
    BalanceCleaned =>
       LET value == raw_row.balance
           cents == cleaned["balance_cents"]
       IN  /\ (Contains(value, ",") /\ ~Contains(value, "."))
                 => Returned(cents) = ParseCurrency(Replace(value, <<",">>, <<".">>))
           /\ (Contains(value, ",") /\ Contains(value, "."))
                 => Returned(cents) = ParseCurrency(Replace(value, <<",">>, <<>>))
           /\ value = <<"1", ",", "2", "3">> => cents = 123
           /\ value = <<"$", "1", ",", "2", "3", "4", ".", "5", "6">> => cents = 123456

\* C18: an amount of n thousandths is rounded to the nearest minor unit, a
\* half going up: "0.125" is 13 minor units and "0.005" is 1.
C18_RoundHalfUp ==
    BalanceCleaned =>
       \A n \in 0..MaxThousandths :
          raw_row.balance = ThousandthsText(n)
             => cleaned["balance_cents"] = (n + 5) \div 10

\* C19: the minor units a balance was parsed to, printed as an amount with
\* two decimals and parsed again, are the same minor units, for positive,
\* zero and negative amounts.
C19_RoundTrip ==
    BalanceCleaned =>
       ParseCurrency(FormatBalance(cleaned["balance_cents"]))
          = Returned(cleaned["balance_cents"])

\* a parenthesized amount parsed to negative minor units, and an amount with
\* a fraction parsed to positive ones
C19_Witness ==
    /\ BalanceCleaned
    /\ npc = "returned"
    /\ \/ /\ raw_row.balance = <<"(", "5", "0", "0", ".", "0", "0", ")">>
          /\ cleaned["balance_cents"] = 0 - 50000
       \/ /\ raw_row.balance = <<"$", "1", ",", "2", "3", "4", ".", "5", "6">>
          /\ cleaned["balance_cents"] = 123456

C26_Step ==
    (/\ Len(collected') = Len(collected) + 1
     /\ collected'[Len(collected')] = "exception"
     /\ total_errors' * 100 > error_threshold * (total_success' + total_errors')) =>
            /\ mpc' = "shutdown"
            /\ \A b \in Batches \ {cpos} :
                  fstate[b] = "pending" => fstate'[b] = "cancelled"

\* C26: the error threshold is checked after a batch whose result raised or
\* timed out as well: when the errors added for it put the error rate over
\* the threshold, the pending batches are cancelled and the collection ends.
C26_ThresholdAfterFailedBatch == [][C26_Step]_vars

\* errors and successes of the batches that have returned, in whatever order
RECURSIVE CompletedSum(_, _)
CompletedSum(b, field) ==
    IF b = 0 THEN 0
    ELSE CompletedSum(b - 1, field)
         + (IF fstate[b] = "returned"
            THEN (IF field = "success" THEN fresult[b].success_count
                                       ELSE fresult[b].error_count)
            ELSE 0)

C27_Step ==
    (/\ max_workers > 1
     /\ mpc = "collect"
     /\ fstate[cpos] = "running"
     /\ CompletedSum(NumBatches, "errors") * 100
           > error_threshold * (CompletedSum(NumBatches, "success")
                                + CompletedSum(NumBatches, "errors")))
       => \A b \in Batches : fstate[b] = "pending" => fstate'[b] # "running"

\* C27: with more than one worker, once the batches that have completed (in
\* whatever order) put the error rate over the threshold, no batch that is
\* still pending starts, here while the runner waits for an earlier batch
\* that is still running.
C27_CompletionOrderThreshold == [][C27_Step]_vars

(***************************************************************************)
(* Claims about the circuit breaker and recovery in a pipeline run         *)
(***************************************************************************)
C25_Step ==
    (pr_breaker /\ Len(record_outcome') = Len(record_outcome) + 1) =>
        LET o == record_outcome'[Len(record_outcome')]
        IN  /\ o.did = "raised"
            /\ o.exception = "Circuit breaker is open - system in failure state"
            /\ quarantine_queue' = quarantine_queue
            /\ batch_results'.results = batch_results.results

\* C25: once the circuit breaker has opened, every record processed afterwards
\* fails fast: its validation, masking and transformation are not executed.
C25_OpenBreakerFailsFast == [][C25_Step]_vars

\* the number of records at the end of the outcomes that failed in a row
RECURSIVE TrailingFailures(_)
TrailingFailures(outcomes) ==
    IF outcomes = <<>> \/ outcomes[Len(outcomes)].did # "raised" THEN 0
    ELSE 1 + TrailingFailures(SubSeq(outcomes, 1, Len(outcomes) - 1))

\* C28: the consecutive-failure count is the number of records that failed
\* in a row (one per failed record, reset by a successful one), so the breaker
\* is open only after five records in a row have failed.
C28_OneFailurePerRecord ==
    /\ pr_failures = TrailingFailures(record_outcome)
    /\ pr_breaker =>
          \E k \in 0..Len(record_outcome) :
             TrailingFailures(SubSeq(record_outcome, 1, k)) >= BreakerThreshold

\* C29: an ErrorRecord is resolved only when its record was recovered: the
\* record was returned, is not escalated and is not counted as an error; and
\* resolved holds exactly when resolution_strategy is set.
C29_ResolvedMeansRecovered ==
    \A e \in 1..Len(pr_error_records) :
       LET error_record == pr_error_records[e]
       IN  /\ error_record.resolved <=> error_record.resolution_strategy # ""
           /\ error_record.resolved =>
                 /\ record_outcome[error_record.record_id].did = "returned"
                 /\ \A k \in 1..Len(pr_error_records) :
                       pr_error_records[k].record_id = error_record.record_id
                          => pr_error_records[k].severity # "CRITICAL"


(***************************************************************************)
(* Claims about start_monitoring and stop_monitoring                       *)
(***************************************************************************)
\* a thread that stop_monitoring asked to end passes the test of its while
\* loop and goes on to sample
Resumes(t) ==
    /\ sampler[t].asked
    /\ sampler[t].at = "while"
    /\ sampler'[t].at = "sample"

\* C30: whatever start_monitoring and stop_monitoring calls are made, a start
\* right after a stop whose join timed out included, at most one thread is
\* inside the sampling loop's body at any time, and a thread that was asked to
\* stop never passes the loop's test again.
C30_OneSamplingThread ==
    /\ [](Cardinality({t \in Threads : sampler[t].at = "sample"}) <= 1)
    /\ [][\A t \in Threads : ~Resumes(t)]_vars


(***************************************************************************)
(* Claims about _process_single_record, validate_record and the audit log  *)
(***************************************************************************)
\* the fields apply_data_protection replaced in the record of this call
Replaced ==
    {f \in Fields :
        Qualifying(pii_detections[f], ConfidenceThreshold(protection_level)) # <<>>}

\* the masking step of this call and its audit entry are both done
Audited == rc_pc \in {"transform", "final", "returned"} /\ Contains(rc_steps, "mask")

\* C21: a masking action on a record appends one audit entry, and the entry's
\* masking_applied is true exactly when at least one field of the record was
\* replaced by a masked value under the configured protection level.
C21_AuditTellsMasking ==
    Audited =>
        /\ Len(audit_log) = 1
        /\ audit_log[1].masking_applied <=> Replaced # {}

\* a rule of the schema that the record as validated does not meet
Broken(rule, record, f) ==
    /\ rule.has_rule
    /\ \/ rule.required /\ (f \notin record.keys \/ Chars(record, f) = <<>>)
       \/ /\ f \in record.keys
          /\ \/ rule.min_length > 0 /\ Len(Chars(record, f)) < rule.min_length
             \/ rule.max_length > 0 /\ Len(Chars(record, f)) > rule.max_length

\* the field name validate_record's results carry for a key
ResultField(f) == IF f \in {"balance_cents", "balance"} THEN "balance" ELSE f

\* C22: validate_record applies the loaded schema: for every field with a
\* rule, a required field that is missing or empty, or a value shorter than
\* min_length or longer than max_length, produces a validation result for
\* that field.
C22_SchemaRulesApplied ==
    rc_pc \in {"reject", "scan"} =>
        \A f \in Fields :
            Broken(validation_rules[f], rc_record, f) =>
                \E i \in 1..Len(validation_results) :
                    validation_results[i].field = ResultField(f)

\* a contact field that is absent or empty once it is normalized
NoContact(record, f) == f \notin record.keys \/ Strip(Chars(record, f)) = <<>>

\* the cross-field ERROR is among the results
ContactError(results) ==
    \E i \in 1..Len(results) :
        results[i].field = "contact_info" /\ results[i].severity = "ERROR"

\* C23: validate_record, given the normalized record, raises the cross-field
\* ERROR exactly when both email and phone are empty or absent, and it leaves
\* the record as it was.
C23_MissingContactInfo ==
    rc_pc = "returned" =>
        /\ ContactError(final_validation) <=>
               (NoContact(cleaned_record, "email") /\ NoContact(cleaned_record, "phone"))
        /\ cleaned_record = ApplyDataTransformations(rc_record)

\* step a comes before step b wherever b was taken
Before(a, b) ==
    \A j \in 1..Len(rc_steps) :
        rc_steps[j] = b => \E i \in 1..(j - 1) : rc_steps[i] = a

\* C24: the steps of the per-record transform run in the order normalize,
\* mask, validate: the record is not rejected before it was normalized, it is
\* not masked before it was normalized, and it is masked before the validation
\* whose results are reported.
C24_NormalizeMaskValidate ==
    /\ Before("normalize", "reject")
    /\ Before("normalize", "mask")
    /\ (rc_pc = "returned" /\ Contains(rc_steps, "mask")) =>
           \E i \in 1..Len(rc_steps) :
               rc_steps[i] = "mask" /\ i < Len(rc_steps) /\ rc_steps[Len(rc_steps)] = "validate"

====
